---- MODULE Spec2Model ----
(***************************************************************************)
(* Case / evidence identifiers and chain of custody of the forensics app.  *)
(* The store is the database (tables cases, evidence, evidence_transfers,  *)
(* evidence_images); every web request is a process that reads the store,  *)
(* works on its in-memory copy and writes back, one database statement per *)
(* step, so that requests interleave the way Django's autocommit allows.   *)
(* Identifiers are character strings, modelled as tuples of one-character  *)
(* strings, so that split, startswith, int(), zero padding and the         *)
(* ORDER BY of the database are computed as the code computes them.        *)
(***************************************************************************)
EXTENDS Integers, Sequences, FiniteSets, TLC

\* ---------------------------------------------------------------- bounds
MaxCases == 2
MaxEvidence == 2
MaxLedger == 2
MaxSuffix == 8
SeqCases == 1
CustodyItems == 1
MaxSims == 2
MaxRequests == 2

\* ------------------------------------------------------------ characters
Digits == <<"0", "1", "2", "3", "4", "5", "6", "7", "8", "9">>

IsDigit(c) == \E i \in 1..Len(Digits) : Digits[i] = c

DigitVal(c) == (CHOOSE i \in 1..Len(Digits) : Digits[i] = c) - 1

\* Code point of a character (binary collation of ORDER BY evidence_number).
Ord(c) ==
  IF c = "-" THEN 45
  ELSE IF IsDigit(c) THEN 48 + DigitVal(c)
  ELSE IF c = "A" THEN 65
  ELSE IF c = "D" THEN 68
  ELSE IF c = "E" THEN 69
  ELSE IF c = "G" THEN 71
  ELSE IF c = "I" THEN 73
  ELSE IF c = "N" THEN 78
  ELSE IF c = "S" THEN 83
  ELSE IF c = "U" THEN 85
  ELSE 88

\* str.startswith / evidence_number__startswith
StartsWith(s, p) == Len(p) <= Len(s) /\ SubSeq(s, 1, Len(p)) = p

\* s < t in the order ORDER BY uses on strings
RECURSIVE StrLess(_, _)
StrLess(s, t) ==
  IF t = <<>> THEN FALSE
  ELSE IF s = <<>> THEN TRUE
  ELSE IF Ord(Head(s)) # Ord(Head(t)) THEN Ord(Head(s)) < Ord(Head(t))
  ELSE StrLess(Tail(s), Tail(t))

\* str.split('-'): the list of '-'-delimited segments
RECURSIVE SplitFrom(_, _)
SplitFrom(s, cur) ==
  IF s = <<>> THEN <<cur>>
  ELSE IF Head(s) = "-" THEN <<cur>> \o SplitFrom(Tail(s), <<>>)
  ELSE SplitFrom(Tail(s), Append(cur, Head(s)))

Split(s) == SplitFrom(s, <<>>)

\* int(seg) raises ValueError unless seg is a non-empty run of digits
\* (the identifier alphabet has no blanks, signs or underscores)
IsInt(seg) == seg # <<>> /\ \A i \in 1..Len(seg) : IsDigit(seg[i])

RECURSIVE IntOf(_)
IntOf(seg) ==
  IF seg = <<>> THEN 0
  ELSE 10 * IntOf(SubSeq(seg, 1, Len(seg) - 1)) + DigitVal(seg[Len(seg)])

\* str(n), decimal digits without padding
RECURSIVE Decimal(_)
Decimal(n) ==
  IF n < 10 THEN <<Digits[n + 1]>>
  ELSE Append(Decimal(n \div 10), Digits[(n % 10) + 1])

RECURSIVE ZeroPad(_, _)
ZeroPad(s, w) == IF Len(s) >= w THEN s ELSE ZeroPad(<<"0">> \o s, w)

\* f"{n:0wd}"
Format(n, w) == ZeroPad(Decimal(n), w)

\* ----------------------------------------------------------- the inputs
Procs == {"p1", "p2"}

Departments == {"", "ar", "sur"}

Y25 == <<"2", "5">>
Y26 == <<"2", "6">>

UNASSIGNED == <<"U", "N", "A", "S", "S", "I", "G", "N", "E", "D">>

\* operator-supplied case numbers (request.POST['case_number'], stripped)
CaseNumberInputs ==
  { <<"2", "5", "-", "0", "0", "0", "1">>,
    <<"2", "5", "-", "0", "0", "0", "7">>,
    <<"2", "5", "-", "0", "0", "0", "3", "-", "X">>,
    <<"2", "5", "-", "X">> }

\* operator-supplied evidence numbers (request.POST['evidence_number'])
EvidenceNumberInputs ==
  { <<"2", "5", "-", "0", "0", "0", "7", "-", "0", "0", "1">>,
    <<"2", "5", "-", "U", "N", "A", "S", "S", "I", "G", "N", "E", "D", "-", "X">> }

\* the numbers supplied where case and evidence requests run together
IdentCaseNumbers == { <<"2", "5", "-", "0", "0", "0", "7">> }

IdentEvidenceNumbers == { <<"2", "5", "-", "0", "0", "0", "7", "-", "0", "0", "1">> }

\* transfer_date of a request: none given, or a date before / after every
\* reading of the clock made while the ledger is explored
NoDate == -1
Past == 0
Future == MaxLedger + 2

TransferDates == {Past, Future}

CaseIds == 1..MaxCases
EvidenceIds == 1..MaxEvidence
AccessIds == 1..MaxRequests

\* ------------------------------------------------------------- the state
VARIABLES
  year,      \* timezone.now().strftime('%y')
  cases,     \* table cases: id -> row
  ncases,    \* case rows stored so far (primary keys are never reused)
  evidence,  \* table evidence: id -> row
  nevidence, \* evidence rows stored so far
  ledger,    \* table evidence_transfers, in insertion order
  dates,     \* column transfer_date of evidence_transfers, row by row
  now,       \* timezone.now(), in ticks of the clock
  images,    \* evidence ids that own uploaded EvidenceImage rows
  files,     \* table evidence, columns file_path, file_size, hash_*,
             \* received_date: id -> row
  post_data, \* request.POST handed to _extract_device_specific_data
  device_data, \* what _extract_device_specific_data returned (or raised)
  access_requests, \* table access_requests: id -> row
  users,     \* table auth_user: the usernames taken
  req,       \* per worker: the request in flight and its in-memory objects
  resp       \* the response sent by the step just taken ("none": no response)

vars ==
  <<year, cases, ncases, evidence, nevidence, ledger, dates, now, images, files,
    post_data, device_data, access_requests, users, req, resp>>

NoCase == [live |-> FALSE, case_number |-> <<>>, case_name |-> ""]

NoEvidence ==
  [live |-> FALSE, evidence_number |-> <<>>, case |-> 0, current_department |-> ""]

\* file_size = None
NoSize == -1

\* the file columns of an evidence row and its received_date (NoDate: NULL);
\* file_path stands for the bytes that reading the file yields (empty: no file)
NoFile ==
  [file_path |-> <<>>, hash_md5 |-> <<>>, hash_sha1 |-> <<>>, hash_sha256 |-> <<>>,
   file_size |-> NoSize, received_date |-> NoDate]

\* no row of table access_requests under this id
NoAccess ==
  [live |-> FALSE, badge_number |-> "", requested_username |-> "",
   status |-> "", reviewed_by |-> "", temp_password |-> ""]

Idle ==
  [pc |-> "idle", id |-> 0, number |-> <<>>, auto |-> FALSE, api |-> FALSE,
   case |-> 0, name |-> "", dept |-> "", old |-> "", img |-> FALSE,
   rest |-> <<>>, file |-> NoFile, received |-> NoDate,
   access_request |-> NoAccess, temp_password |-> "", alone |-> TRUE]

\* ------------------------------------------------ the uniqueness constraint
\* unique=True on Case.case_number: the INSERT / UPDATE of row id with this
\* number raises IntegrityError
\* (the field declared without unique=True: nothing is ever refused)
CaseNumberTakenNotUnique(cs, id, number) == FALSE

CaseNumberTaken(cs, id, number) ==
  \E i \in CaseIds : i # id /\ cs[i].live /\ cs[i].case_number = number

\* unique=True on Evidence.evidence_number
\* (the field declared without unique=True)
EvidenceNumberTakenNotUnique(es, id, number) == FALSE

EvidenceNumberTaken(es, id, number) ==
  \E i \in EvidenceIds : i # id /\ es[i].live /\ es[i].evidence_number = number

\* -------------------------------------------------- identifier generation
\* (the loop parsing the last segment, split('-')[-1], instead of the second)
RECURSIVE MaxCaseNumLastSegment(_, _)
MaxCaseNumLastSegment(nums, max_num) ==
  IF nums = {} THEN max_num
  ELSE LET n == CHOOSE x \in nums : TRUE
           parts == Split(n)
           ok == IsInt(parts[Len(parts)])
           num == IF ok THEN IntOf(parts[Len(parts)]) ELSE 0
       IN MaxCaseNumLastSegment(nums \ {n}, IF ok /\ num > max_num THEN num ELSE max_num)

\* Case.save: the loop over cases_this_year
RECURSIVE MaxCaseNum(_, _)
MaxCaseNum(nums, max_num) ==
  IF nums = {} THEN max_num
  ELSE LET n == CHOOSE x \in nums : TRUE
           parts == Split(n)
           ok == Len(parts) >= 2 /\ IsInt(parts[2])
           num == IF ok THEN IntOf(parts[2]) ELSE 0
       IN MaxCaseNum(nums \ {n}, IF ok /\ num > max_num THEN num ELSE max_num)

\* Case.save with an empty case_number: the generated number
NextCaseNumber(yr, cs, self) ==
  LET cases_this_year ==
        { cs[i].case_number : i \in { j \in CaseIds :
            j # self /\ cs[j].live /\ StartsWith(cs[j].case_number, yr \o <<"-">>) } }
      next_num == MaxCaseNum(cases_this_year, 0) + 1
  IN yr \o <<"-">> \o Format(next_num, 4)

\* the sequence number Case.save would generate is within the bound explored
CaseSuffixRoom(yr, cs, self) ==
  LET max_num == MaxCaseNum({ cs[i].case_number : i \in { j \in CaseIds :
                     j # self /\ cs[j].live
                     /\ StartsWith(cs[j].case_number, yr \o <<"-">>) } }, 0)
  IN max_num < MaxSuffix

\* Case.save: the number the row is written with
CaseSaveNumber(yr, cs, self, number) ==
  IF number = <<>> THEN NextCaseNumber(yr, cs, self) ELSE number

\* QuerySet.order_by('-evidence_number').first() over a set of numbers
FirstDescending(nums) == CHOOSE n \in nums : \A m \in nums : m = n \/ StrLess(m, n)

\* (next_num without the + 1)
NextNumNoIncrement(nums) ==
  IF nums = {} THEN 1
  ELSE LET parts == Split(FirstDescending(nums))
           last == parts[Len(parts)]
       IN IF IsInt(last) THEN IntOf(last) ELSE 1

\* evidence_create: next_num from the first row of the ordered query
NextNum(nums) ==
  IF nums = {} THEN 1
  ELSE LET parts == Split(FirstDescending(nums))
           last == parts[Len(parts)]
       IN IF IsInt(last) THEN IntOf(last) + 1 ELSE 1

\* evidence_create with an empty evidence_number and a case
NextEvidenceNumber(es, c, case_number) ==
  LET case_evidence ==
        { es[i].evidence_number : i \in { j \in EvidenceIds :
            es[j].live /\ es[j].case = c /\ StartsWith(es[j].evidence_number, case_number) } }
  IN case_number \o <<"-">> \o Format(NextNum(case_evidence), 3)

\* evidence_create with an empty evidence_number and no case
NextUnassignedNumber(yr, es) ==
  LET prefix == yr \o <<"-">> \o UNASSIGNED \o <<"-">>
      unassigned_evidence ==
        { es[i].evidence_number : i \in { j \in EvidenceIds :
            es[j].live /\ StartsWith(es[j].evidence_number, prefix) } }
  IN prefix \o Format(NextNum(unassigned_evidence), 3)

\* a create request is explored only while the table has room for its row
\* (max rows ever stored), or if its number is held and the INSERT is refused
CaseRoom(max, number) ==
  ncases < max \/ (number # <<>> /\ CaseNumberTaken(cases, 0, number))

EvidenceRoom(max, number) ==
  nevidence < max \/ (number # <<>> /\ EvidenceNumberTaken(evidence, 0, number))

\* ------------------------------------------------------ device attributes
\* The values of request data and of the attribute bag: a string, True, None
\* or a list (of SIM-card records)
Str(s) == [type |-> "str", str |-> s, list |-> <<>>]

True == [type |-> "bool", str |-> <<>>, list |-> <<>>]

None == [type |-> "none", str |-> <<>>, list |-> <<>>]

List(l) == [type |-> "list", str |-> <<>>, list |-> l]

\* bool(value)
Truthy(v) ==
  \/ v.type = "bool"
  \/ v.type = "str" /\ v.str # <<>>
  \/ v.type = "list" /\ v.list # <<>>

\* (strip() leaving the string as it is)
StripNothing(s) == s

\* (lstrip(): without the leading blanks only)
RECURSIVE StripLeading(_)
StripLeading(s) ==
  IF s = <<>> THEN s
  ELSE IF Head(s) = " " THEN StripLeading(Tail(s))
  ELSE s

\* str.strip(): without the blanks at both ends
RECURSIVE Strip(_)
Strip(s) ==
  IF s = <<>> THEN s
  ELSE IF Head(s) = " " THEN Strip(Tail(s))
  ELSE IF s[Len(s)] = " " THEN Strip(SubSeq(s, 1, Len(s) - 1))
  ELSE s

\* QueryDict.get(key): the last value of the key, None without the key
Get(post, key) ==
  IF key \in DOMAIN post /\ post[key] # <<>> THEN post[key][Len(post[key])] ELSE None

\* QueryDict.getlist(key)
GetList(post, key) == IF key \in DOMAIN post THEN post[key] ELSE <<>>

device_specific_fields ==
  { "computer_type", "os_type", "os_version", "cpu", "ram", "storage_type",
    "storage_capacity", "encryption_status", "write_blocker_used",
    "mobile_os_type", "mobile_os_version", "sim_status", "lock_status", "battery_level",
    "storage_device_type", "capacity", "connection_interface", "filesystem",
    "network_device_type", "network_ip_address", "subnet_mask", "admin_access_method",
    "service_provider", "account_identifier", "legal_authority", "access_method",
    "vehicle_make", "vehicle_model", "vehicle_year", "vin_number", "license_plate",
    "odometer",
    "video_source_type", "camera_location", "video_format", "resolution", "duration",
    "frame_rate", "date_diff_value", "time_diff_value",
    "console_type", "account_username",
    "drone_storage_type", "controller_serial",
    "iot_device_type", "network_type",
    "memory_type", "system_state", "memory_size", "acquisition_duration" }

\* the request arrays of the SIM cards and the key each one fills
SimArrays ==
  [ iccid |-> "sim_iccid[]", imsi |-> "sim_imsi[]",
    phone_number |-> "sim_phone_number[]", carrier |-> "sim_carrier[]",
    sim_type |-> "sim_type[]", pin_status |-> "sim_pin_status[]",
    notes |-> "sim_notes[]" ]

\* (the arrays zipped up to the shortest one)
MinLength(post) ==
  LET lens == { Len(GetList(post, SimArrays[k])) : k \in DOMAIN SimArrays }
  IN CHOOSE m \in lens : \A n \in lens : n >= m

\* max(len(sim_iccids), ..., len(sim_notes_list))
MaxLength(post) ==
  LET lens == { Len(GetList(post, SimArrays[k])) : k \in DOMAIN SimArrays }
  IN CHOOSE m \in lens : \A n \in lens : n <= m

\* the sim_card built at index i (counted from 1)
SimCard(post, i) ==
  LET present == { k \in DOMAIN SimArrays :
                     /\ i <= Len(GetList(post, SimArrays[k]))
                     /\ Strip(GetList(post, SimArrays[k])[i].str) # <<>> }
  IN [k \in present |-> Strip(GetList(post, SimArrays[k])[i].str)]

\* the sim_cards list: the non-empty cards, by index
SimCards(post) ==
  SelectSeq([i \in 1..MaxLength(post) |-> SimCard(post, i)], LAMBDA c : DOMAIN c # {})

\* value.strip() / sim_x[i].strip() is called on a value that is no string
RaisesAttributeError(post) ==
  \/ \E field \in device_specific_fields :
       Truthy(Get(post, field)) /\ Get(post, field).type # "str"
  \/ \E k \in DOMAIN SimArrays : \E i \in 1..Len(GetList(post, SimArrays[k])) :
       GetList(post, SimArrays[k])[i].type # "str"

\* _extract_device_specific_data(post_data): the device_data returned, or
\* the exception raised
ExtractDeviceSpecificData(post) ==
  IF RaisesAttributeError(post)
  THEN [raised |-> TRUE, data |-> <<>>]
  ELSE LET kept == { field \in device_specific_fields :
                       /\ Truthy(Get(post, field))
                       /\ Strip(Get(post, field).str) # <<>> }
           flat == [field \in kept |->
                      IF field = "write_blocker_used" THEN True
                      ELSE Str(Strip(Get(post, field).str))]
           any == \E k \in DOMAIN SimArrays : GetList(post, SimArrays[k]) # <<>>
       IN [raised |-> FALSE,
           data |-> IF any /\ SimCards(post) # <<>>
                    THEN flat @@ ("sim_cards" :> List(SimCards(post)))
                    ELSE flat]

\* device_specific_data = {} (JSONField default=dict)
NoData == [raised |-> FALSE, data |-> <<>>]

\* the sequences over S of length up to n
SeqsUpTo(S, n) == UNION { [1..k -> S] : k \in 0..n }

\* a key of the request: absent, or with one of the values
Opt(key, values) == { <<>> } \cup { key :> <<Str(v)>> : v \in values }

\* an array of the request: absent, or with up to n of the values
Arr(key, values, n) ==
  { <<>> } \cup { key :> [i \in DOMAIN l |-> Str(l[i])] :
                    l \in SeqsUpTo(values, n) \ { <<>> } }

\* the forms submitted: a device type, a text field of computers, the
\* write-blocker checkbox, a key outside the registry, two SIM arrays
PostInputs ==
  { dt @@ cpu @@ wb @@ uk @@ ic @@ im :
      dt \in { "device_type" :> <<Str(<<"m">>)>>, "device_type" :> <<Str(<<"c">>)>> },
      cpu \in Opt("cpu", { <<>>, <<" ">>, <<"x">>, <<" ", "x", " ">> }),
      wb \in Opt("write_blocker_used", { <<"o", "n">> }),
      uk \in Opt("unknown_key", { <<"x">> }),
      ic \in Arr("sim_iccid[]", { <<>>, <<"A">>, <<" ", "B">> }, MaxSims),
      im \in Arr("sim_imsi[]", { <<>>, <<"X">> }, MaxSims) }

\* a stored bag sent back as request data: every key with its value
AsPostData(bag) == [k \in DOMAIN bag |-> <<bag[k]>>]

\* ------------------------------------------------------------ the start
Init ==
  /\ year = Y25
  /\ cases = [i \in CaseIds |-> NoCase]
  /\ ncases = 0
  /\ evidence = [i \in EvidenceIds |-> NoEvidence]
  /\ nevidence = 0
  /\ ledger = <<>>
  /\ dates = <<>>
  /\ now = 1
  /\ images = {}
  /\ files = [i \in EvidenceIds |-> NoFile]
  /\ post_data = <<>>
  /\ device_data = NoData
  /\ access_requests = [a \in AccessIds |-> NoAccess]
  /\ users = {}
  /\ req = [p \in Procs |-> Idle]
  /\ resp = "none"

IsIdle(p) == req[p].pc = "idle"

\* The requests of the other workers, after a step of worker p: a request in
\* flight records in `alone` whether the store was written by another request
\* since it began (history kept to tell sequential from overlapping requests).
Others(p, wrote) ==
  [q \in Procs |->
     IF q # p /\ wrote /\ req[q].pc # "idle"
     THEN [req[q] EXCEPT !.alone = FALSE] ELSE req[q]]

\* the request of worker p goes on as r
Goto(p, r, wrote) ==
  /\ req' = [Others(p, wrote) EXCEPT ![p] = r]
  /\ resp' = "none"

\* the request of worker p ends and the view answers with outcome r
Finish(p, r, wrote) ==
  /\ req' = [Others(p, wrote) EXCEPT ![p] = Idle]
  /\ resp' = r

\* the clock passes new year
NewYear ==
  /\ year = Y25
  /\ year' = Y26
  /\ resp' = "none"
  /\ UNCHANGED <<cases, ncases, evidence, nevidence, ledger, dates, now, images,
                 post_data, device_data, files, req, access_requests, users>>

\* ----------------------------------------------------------------- cases
CaseRow(number, name) == [live |-> TRUE, case_number |-> number, case_name |-> name]

\* case_create (api = FALSE; number is the stripped case_number of the form,
\* empty if none was supplied) or POST /api/cases/ (api = TRUE; case_number is
\* read-only there, so number is empty): Case.objects.create builds the object
\* and Case.save generates the number if it is empty, scanning the cases of
\* the year
CaseCreateBegin(p, number, name, api) ==
  /\ IsIdle(p)
  /\ number = <<>> => CaseSuffixRoom(year, cases, 0)
  /\ Goto(p, [Idle EXCEPT !.pc = "case_insert",
                          !.number = CaseSaveNumber(year, cases, 0, number),
                          !.auto = (number = <<>>), !.api = api, !.name = name], FALSE)
  /\ UNCHANGED <<year, cases, ncases, evidence, nevidence, ledger, dates, now, images,
                 post_data, device_data, files, access_requests, users>>

\* ... and super().save() INSERTs the row; the view catches IntegrityError,
\* the API view does not
CaseCreateInsert(p) ==
  /\ req[p].pc = "case_insert"
  /\ IF CaseNumberTaken(cases, 0, req[p].number)
     THEN /\ Finish(p, IF req[p].api THEN "server_error" ELSE "duplicate_error", FALSE)
          /\ UNCHANGED <<cases, ncases>>
     ELSE /\ ncases < MaxCases
          /\ ncases' = ncases + 1
          /\ cases' = [cases EXCEPT ![ncases + 1] = CaseRow(req[p].number, req[p].name)]
          /\ Finish(p, "created", TRUE)
  /\ UNCHANGED <<year, evidence, nevidence, ledger, dates, now, images, post_data,
                 device_data, files, access_requests, users>>

\* case_update: load the case, check a changed number against the other
\* cases, set the fields on the in-memory object
CaseUpdateBegin(p, c, number, name) ==
  /\ IsIdle(p)
  /\ cases[c].live
  /\ IF number # <<>> /\ number # cases[c].case_number
        /\ CaseNumberTaken(cases, c, number)
     THEN Finish(p, "duplicate_error", FALSE)
     ELSE /\ Goto(p, [Idle EXCEPT !.pc = "case_save", !.id = c,
                                  !.number = IF number # <<>> THEN number
                                             ELSE cases[c].case_number,
                                  !.auto = (number = <<>>), !.name = name], FALSE)
  /\ UNCHANGED <<year, cases, ncases, evidence, nevidence, ledger, dates, now, images,
                 post_data, device_data, files, access_requests, users>>

\* ... case.save(): Case.save, then the UPDATE of every column of the row
\* (an INSERT if the row is gone); IntegrityError is not caught
CaseUpdateSave(p) ==
  /\ req[p].pc = "case_save"
  /\ LET number == CaseSaveNumber(year, cases, req[p].id, req[p].number)
     IN IF CaseNumberTaken(cases, req[p].id, number)
        THEN /\ Finish(p, "server_error", FALSE)
             /\ UNCHANGED cases
        ELSE /\ cases' = [cases EXCEPT ![req[p].id] = CaseRow(number, req[p].name)]
             /\ Finish(p, "updated", TRUE)
  /\ UNCHANGED <<year, ncases, evidence, nevidence, ledger, dates, now, images,
                 post_data, device_data, files, access_requests, users>>

\* PUT/PATCH /api/cases/<id>/: case_number is read-only in CaseSerializer
ApiCaseUpdate(p, c, name) ==
  /\ IsIdle(p)
  /\ cases[c].live
  /\ cases' = [cases EXCEPT ![c] =
                 CaseRow(CaseSaveNumber(year, cases, c, cases[c].case_number), name)]
  /\ Finish(p, "updated", TRUE)
  /\ UNCHANGED <<year, ncases, evidence, nevidence, ledger, dates, now, images,
                 post_data, device_data, files, access_requests, users>>

\* the admin change form of a case: case_number is an editable, optional
\* field, validated for uniqueness by the form; then Case.save
AdminCaseChange(p, c, number, name) ==
  /\ IsIdle(p)
  /\ cases[c].live
  /\ number = <<>> => CaseSuffixRoom(year, cases, c)
  /\ IF CaseNumberTaken(cases, c, number)
     THEN /\ Finish(p, "validation_error", FALSE)
          /\ UNCHANGED cases
     ELSE /\ cases' = [cases EXCEPT ![c] =
                         CaseRow(CaseSaveNumber(year, cases, c, number), name)]
          /\ Finish(p, "updated", TRUE)
  /\ UNCHANGED <<year, ncases, evidence, nevidence, ledger, dates, now, images,
                 post_data, device_data, files, access_requests, users>>

\* case_delete: the row goes, Evidence.case is SET_NULL
CaseDelete(p, c) ==
  /\ IsIdle(p)
  /\ cases[c].live
  /\ cases' = [cases EXCEPT ![c] = NoCase]
  /\ evidence' = [i \in EvidenceIds |->
                    IF evidence[i].live /\ evidence[i].case = c
                    THEN [evidence[i] EXCEPT !.case = 0] ELSE evidence[i]]
  /\ Finish(p, "deleted", TRUE)
  /\ UNCHANGED <<year, ncases, nevidence, ledger, dates, now, images, post_data,
                 device_data, files, access_requests, users>>

\* -------------------------------------------------------------- evidence
\* uploaded files, as their bytes
Contents == { <<"a">>, <<"b", "c">> }

\* hashlib.md5 / sha1 / sha256 (content).hexdigest(): distinct digests for
\* distinct contents
Md5(content) == <<"md5">> \o content

Sha1(content) == <<"sha1">> \o content

Sha256(content) == <<"sha256">> \o content

\* Evidence.save: the digests and the size are computed if there is a file
\* and hash_md5 is empty; f is the in-memory object, the result is written
EvidenceSave(f) ==
  IF f.file_path # <<>> /\ f.hash_md5 = <<>>
  THEN [f EXCEPT !.hash_md5 = Md5(f.file_path), !.hash_sha1 = Sha1(f.file_path),
                 !.hash_sha256 = Sha256(f.file_path), !.file_size = Len(f.file_path)]
  ELSE f

EvidenceRow(number, c, dept) ==
  [live |-> TRUE, evidence_number |-> number, case |-> c, current_department |-> dept]

\* Case.objects.filter(pk=case_id).exists(), for the case_id of a form
CaseExists(cs, c) == c = 0 \/ cs[c].live

\* the FOREIGN KEY of evidence_transfers.evidence
EvidenceExists(es, e) == es[e].live

\* rows the requests in flight may still append (keeps the ledger bounded)
Pending(q) ==
  IF req[q].pc = "bulk" THEN Len(req[q].rest)
  ELSE IF req[q].pc \in {"evidence_insert", "evidence_log", "evidence_save",
                         "evidence_uplog", "quick_log"}
          /\ req[q].old # req[q].dept THEN 1 ELSE 0

RECURSIVE SumPending(_)
SumPending(S) ==
  IF S = {} THEN 0
  ELSE LET q == CHOOSE x \in S : TRUE IN Pending(q) + SumPending(S \ {q})

LedgerRoomFor(n) ==
  /\ Len(ledger) + SumPending(Procs) + n <= MaxLedger
  /\ now + SumPending(Procs) + n <= MaxLedger + 1

LedgerRoom == LedgerRoomFor(1)

TransferRow(e, from, to) ==
  [evidence |-> e, from_department |-> from, to_department |-> to]

\* EvidenceTransfer.objects.create without a transfer_date: the default is
\* timezone.now(), and the clock has moved on when it is read again
CreateTransfer(e, from, to) ==
  /\ ledger' = Append(ledger, TransferRow(e, from, to))
  /\ dates' = Append(dates, now)
  /\ now' = now + 1

\* (the foreign key without on_delete=CASCADE: the rows stay)
CascadeTransfersNone(rows, e) == rows

\* on_delete=CASCADE of EvidenceTransfer.evidence
CascadeTransfers(rows, e) == SelectSeq(rows, LAMBDA r : r.evidence # e)

\* ... the transfer_date column of the rows that stay
RECURSIVE CascadeDates(_, _, _)
CascadeDates(rows, ds, e) ==
  IF rows = <<>> THEN <<>>
  ELSE IF Head(rows).evidence = e THEN CascadeDates(Tail(rows), Tail(ds), e)
  ELSE <<Head(ds)>> \o CascadeDates(Tail(rows), Tail(ds), e)

\* the number evidence_create gives a new item
EvidenceCreateNumber(yr, cs, es, number, c) ==
  IF number # <<>> THEN number
  ELSE IF c # 0 THEN NextEvidenceNumber(es, c, cs[c].case_number)
  ELSE NextUnassignedNumber(yr, es)

\* evidence_create: the received_date of the new row, for the one of the form
\* (NoDate: none) and the department of the form
CreateReceivedDate(received_date, current_department) ==
  IF received_date = NoDate /\ current_department # "" THEN now ELSE received_date

\* evidence_create, up to the INSERT: generate the number if none was
\* supplied (reading the case and the evidence table), validate the case
EvidenceCreateBeginAt(p, number, c, dept, img, received_date) ==
  /\ IsIdle(p)
  /\ dept # "" => LedgerRoom
  /\ IF ~CaseExists(cases, c)
     THEN Finish(p, "invalid_case", FALSE)
     ELSE /\ Goto(p, [Idle EXCEPT !.pc = "evidence_insert",
                                  !.number = EvidenceCreateNumber(year, cases, evidence,
                                                                  number, c),
                                  !.auto = (number = <<>>), !.case = c,
                                  !.dept = dept, !.img = img,
                                  !.received = received_date,
                                  !.file = [NoFile EXCEPT !.received_date =
                                              CreateReceivedDate(received_date, dept)]],
                  FALSE)
  /\ UNCHANGED <<year, cases, ncases, evidence, nevidence, ledger, dates, now, images,
                 post_data, device_data, files, access_requests, users>>

\* ... with no received_date in the form
EvidenceCreateBegin(p, number, c, dept, img) ==
  EvidenceCreateBeginAt(p, number, c, dept, img, NoDate)

\* ... Evidence.objects.create: any exception is caught and reported; with no
\* department the request goes on to the uploads and ends
EvidenceCreateInsert(p) ==
  /\ req[p].pc = "evidence_insert"
  /\ IF EvidenceNumberTaken(evidence, 0, req[p].number)
     THEN /\ Finish(p, "duplicate_error", FALSE)
          /\ UNCHANGED <<evidence, nevidence, images, files>>
     ELSE IF ~CaseExists(cases, req[p].case)
     THEN /\ Finish(p, "create_error", FALSE)
          /\ UNCHANGED <<evidence, nevidence, images, files>>
     ELSE /\ nevidence < MaxEvidence
          /\ nevidence' = nevidence + 1
          /\ evidence' = [evidence EXCEPT ![nevidence + 1] =
                            EvidenceRow(req[p].number, req[p].case, req[p].dept)]
          /\ files' = [files EXCEPT ![nevidence + 1] = EvidenceSave(req[p].file)]
          /\ IF req[p].dept # ""
             THEN /\ Goto(p, [req[p] EXCEPT !.pc = "evidence_log",
                                            !.id = nevidence + 1], TRUE)
                  /\ UNCHANGED images
             ELSE /\ images' = IF req[p].img THEN images \cup {nevidence + 1} ELSE images
                  /\ Finish(p, "created", TRUE)
  /\ UNCHANGED <<year, cases, ncases, ledger, dates, now, post_data, device_data, access_requests, users>>

\* ... the ledger row of the initial department, then the uploads
EvidenceCreateLog(p) ==
  /\ req[p].pc = "evidence_log"
  /\ IF ~EvidenceExists(evidence, req[p].id)
     THEN /\ Finish(p, "server_error", FALSE)
          /\ UNCHANGED <<ledger, dates, now, images>>
     ELSE /\ CreateTransfer(req[p].id, "", req[p].dept)
          /\ images' = IF req[p].img THEN images \cup {req[p].id} ELSE images
          /\ Finish(p, "created", TRUE)
  /\ UNCHANGED <<year, cases, ncases, evidence, nevidence, files, post_data, device_data, access_requests, users>>

\* evidence_update: the received_date of the in-memory object, for the stored
\* one, the one of the form (NoDate: none) and the departments
UpdateReceivedDate(stored, received_date, old_department, new_department) ==
  IF received_date # NoDate THEN received_date
  ELSE IF new_department # "" /\ old_department # new_department THEN now
  ELSE IF new_department = "" THEN NoDate
  ELSE stored

\* evidence_update, up to evidence.save(): load the row, validate the case,
\* set the fields on the in-memory object
EvidenceUpdateBeginAt(p, e, number, c, dept, received_date) ==
  /\ IsIdle(p)
  /\ evidence[e].live
  /\ dept # evidence[e].current_department => LedgerRoom
  /\ IF ~CaseExists(cases, c)
     THEN Finish(p, "invalid_case", FALSE)
     ELSE /\ Goto(p, [Idle EXCEPT !.pc = "evidence_save", !.id = e,
                                  !.number = IF number # <<>> THEN number
                                             ELSE evidence[e].evidence_number,
                                  !.auto = (number = <<>>), !.case = c,
                                  !.old = evidence[e].current_department,
                                  !.dept = dept,
                                  !.received = received_date,
                                  !.file = [files[e] EXCEPT !.received_date =
                                              UpdateReceivedDate(@, received_date,
                                                evidence[e].current_department, dept)]],
                  FALSE)
  /\ UNCHANGED <<year, cases, ncases, evidence, nevidence, ledger, dates, now, images,
                 post_data, device_data, files, access_requests, users>>

\* ... with no received_date in the form
EvidenceUpdateBegin(p, e, number, c, dept) ==
  EvidenceUpdateBeginAt(p, e, number, c, dept, NoDate)

\* ... evidence.save(): the UPDATE of every column (an INSERT if the row is
\* gone); no exception is caught
EvidenceUpdateSave(p) ==
  /\ req[p].pc = "evidence_save"
  /\ IF \/ EvidenceNumberTaken(evidence, req[p].id, req[p].number)
        \/ ~CaseExists(cases, req[p].case)
     THEN /\ Finish(p, "server_error", FALSE)
          /\ UNCHANGED <<evidence, files>>
     ELSE /\ evidence' = [evidence EXCEPT ![req[p].id] =
                            EvidenceRow(req[p].number, req[p].case, req[p].dept)]
          /\ files' = [files EXCEPT ![req[p].id] = EvidenceSave(req[p].file)]
          /\ IF req[p].old # req[p].dept
             THEN /\ Goto(p, [req[p] EXCEPT !.pc = "evidence_uplog"], TRUE)
             ELSE Finish(p, "updated", TRUE)
  /\ UNCHANGED <<year, cases, ncases, nevidence, ledger, dates, now, images, post_data,
                 device_data, access_requests, users>>

\* ... the ledger row of a changed department
EvidenceUpdateLog(p) ==
  /\ req[p].pc = "evidence_uplog"
  /\ IF ~EvidenceExists(evidence, req[p].id)
     THEN /\ Finish(p, "server_error", FALSE)
          /\ UNCHANGED <<ledger, dates, now>>
     ELSE /\ CreateTransfer(req[p].id, req[p].old, req[p].dept)
          /\ Finish(p, "updated", TRUE)
  /\ UNCHANGED <<year, cases, ncases, evidence, nevidence, images, post_data,
                 device_data, files, access_requests, users>>

\* (the transfer logged without comparing the old department with the value)
QuickUpdateBeginAlwaysLogs(p, e, value) ==
  /\ IsIdle(p)
  /\ evidence[e].live
  /\ LedgerRoom
  /\ Goto(p, [Idle EXCEPT !.pc = "quick_log",
                          !.id = e, !.number = evidence[e].evidence_number,
                          !.case = evidence[e].case,
                          !.old = evidence[e].current_department,
                          !.dept = value, !.file = files[e]], FALSE)
  /\ UNCHANGED <<year, cases, ncases, evidence, nevidence, ledger, dates, now, images,
                 post_data, device_data, files, access_requests, users>>

\* evidence_quick_update_department, field current_department: load the row
QuickUpdateBegin(p, e, value) ==
  /\ IsIdle(p)
  /\ evidence[e].live
  /\ value # evidence[e].current_department => LedgerRoom
  /\ Goto(p, [Idle EXCEPT !.pc = IF evidence[e].current_department # value
                                 THEN "quick_log" ELSE "quick_save",
                          !.id = e, !.number = evidence[e].evidence_number,
                          !.case = evidence[e].case,
                          !.old = evidence[e].current_department,
                          !.dept = value, !.file = files[e]], FALSE)
  /\ UNCHANGED <<year, cases, ncases, evidence, nevidence, ledger, dates, now, images,
                 post_data, device_data, files, access_requests, users>>

\* ... the ledger row, written before the evidence row
QuickUpdateLog(p) ==
  /\ req[p].pc = "quick_log"
  /\ IF ~EvidenceExists(evidence, req[p].id)
     THEN /\ Finish(p, "server_error", FALSE)
          /\ UNCHANGED <<ledger, dates, now>>
     ELSE /\ CreateTransfer(req[p].id, req[p].old, req[p].dept)
          /\ Goto(p, [req[p] EXCEPT !.pc = "quick_save"], TRUE)
  /\ UNCHANGED <<year, cases, ncases, evidence, nevidence, images, post_data,
                 device_data, files, access_requests, users>>

\* ... evidence.save()
QuickUpdateSave(p) ==
  /\ req[p].pc = "quick_save"
  /\ IF \/ EvidenceNumberTaken(evidence, req[p].id, req[p].number)
        \/ ~CaseExists(cases, req[p].case)
     THEN /\ Finish(p, "server_error", FALSE)
          /\ UNCHANGED <<evidence, files>>
     ELSE /\ evidence' = [evidence EXCEPT ![req[p].id] =
                            EvidenceRow(req[p].number, req[p].case, req[p].dept)]
          /\ files' = [files EXCEPT ![req[p].id] = EvidenceSave(req[p].file)]
          /\ Finish(p, "updated", TRUE)
  /\ UNCHANGED <<year, cases, ncases, nevidence, ledger, dates, now, images, post_data,
                 device_data, access_requests, users>>

\* The views write the evidence row and the ledger row with two ORM calls and
\* no transaction around them (each call commits on its own): the request of
\* worker p ends between the two, its process killed or the second call
\* failing, and what was written stays
Crash(p) ==
  /\ req[p].pc \in {"evidence_log", "evidence_uplog", "quick_save"}
  /\ Finish(p, "server_error", FALSE)
  /\ UNCHANGED <<year, cases, ncases, evidence, nevidence, ledger, dates, now, images,
                 files, post_data, device_data, access_requests, users>>

\* evidence_delete: the row goes, with its transfers, images and documents
EvidenceDelete(p, e) ==
  /\ IsIdle(p)
  /\ evidence[e].live
  /\ evidence' = [evidence EXCEPT ![e] = NoEvidence]
  /\ ledger' = CascadeTransfers(ledger, e)
  /\ dates' = CascadeDates(ledger, dates, e)
  /\ images' = images \ {e}
  /\ files' = [files EXCEPT ![e] = NoFile]
  /\ Finish(p, "deleted", TRUE)
  /\ UNCHANGED <<year, cases, ncases, nevidence, now, post_data, device_data, access_requests, users>>

\* evidence_bulk_update, action department: the selected ids
BulkSelections ==
  { <<e>> : e \in EvidenceIds } \cup
  { <<x[1], x[2]>> : x \in { y \in EvidenceIds \X EvidenceIds : y[1] # y[2] } }

BulkUpdateBegin(p, ids, value) ==
  /\ IsIdle(p)
  /\ LedgerRoomFor(Len(ids))
  /\ Goto(p, [Idle EXCEPT !.pc = "bulk", !.rest = ids, !.dept = value,
                          !.old = value], FALSE)
  /\ UNCHANGED <<year, cases, ncases, evidence, nevidence, ledger, dates, now, images,
                 post_data, device_data, files, access_requests, users>>

\* evidence_bulk_update, action department: the received_date of the row
BulkReceivedDate(stored) == IF stored = NoDate THEN now ELSE stored

\* (the transfer logged without comparing the old department with the value)
BulkUpdateItemAlwaysLogs(p) ==
  /\ req[p].pc = "bulk"
  /\ LET e == Head(req[p].rest)
         value == req[p].dept
         old_department == evidence[e].current_department
     IN /\ IF evidence[e].live
           THEN /\ evidence' = [evidence EXCEPT ![e].current_department = value]
                /\ files' = [files EXCEPT ![e] =
                               EvidenceSave([files[e] EXCEPT !.received_date =
                                               BulkReceivedDate(@)])]
                /\ CreateTransfer(e, old_department, value)
           ELSE UNCHANGED <<evidence, files, ledger, dates, now>>
        /\ IF Len(req[p].rest) = 1
           THEN Finish(p, "updated", evidence[e].live)
           ELSE /\ Goto(p, [req[p] EXCEPT !.rest = Tail(req[p].rest)], evidence[e].live)
  /\ UNCHANGED <<year, cases, ncases, nevidence, images, post_data, device_data, access_requests, users>>

\* ... one turn of the loop: get the row, log the transfer if the department
\* differs, save the row
BulkUpdateItem(p) ==
  /\ req[p].pc = "bulk"
  /\ LET e == Head(req[p].rest)
         value == req[p].dept
         old_department == evidence[e].current_department
     IN /\ IF evidence[e].live
           THEN /\ evidence' = [evidence EXCEPT ![e].current_department = value]
                /\ files' = [files EXCEPT ![e] =
                               EvidenceSave([files[e] EXCEPT !.received_date =
                                               BulkReceivedDate(@)])]
                /\ IF old_department # value
                   THEN CreateTransfer(e, old_department, value)
                   ELSE UNCHANGED <<ledger, dates, now>>
           ELSE UNCHANGED <<evidence, files, ledger, dates, now>>
        /\ IF Len(req[p].rest) = 1
           THEN Finish(p, "updated", evidence[e].live)
           ELSE /\ Goto(p, [req[p] EXCEPT !.rest = Tail(req[p].rest)], evidence[e].live)
  /\ UNCHANGED <<year, cases, ncases, nevidence, images, post_data, device_data, access_requests, users>>

\* POST /api/evidence/: evidence_number is an optional writable field (a
\* supplied one is validated for uniqueness, a missing one is stored empty),
\* current_department is written as given; nothing else is written
ApiEvidenceCreate(p, number, c, dept) ==
  /\ IsIdle(p)
  /\ IF ~CaseExists(cases, c)
        \/ (number # <<>> /\ EvidenceNumberTaken(evidence, 0, number))
     THEN /\ Finish(p, "validation_error", FALSE)
          /\ UNCHANGED <<evidence, nevidence, files>>
     ELSE IF EvidenceNumberTaken(evidence, 0, number)
     THEN /\ Finish(p, "server_error", FALSE)
          /\ UNCHANGED <<evidence, nevidence, files>>
     ELSE /\ nevidence < MaxEvidence
          /\ nevidence' = nevidence + 1
          /\ evidence' = [evidence EXCEPT ![nevidence + 1] = EvidenceRow(number, c, dept)]
          /\ files' = [files EXCEPT ![nevidence + 1] = EvidenceSave(NoFile)]
          /\ Finish(p, "created", TRUE)
  /\ UNCHANGED <<year, cases, ncases, ledger, dates, now, images, post_data, device_data, access_requests, users>>

\* PATCH /api/evidence/<id>/ with case and current_department, and with
\* evidence_number if number is not empty
ApiEvidenceUpdate(p, e, number, c, dept) ==
  /\ IsIdle(p)
  /\ evidence[e].live
  /\ IF ~CaseExists(cases, c)
        \/ (number # <<>> /\ EvidenceNumberTaken(evidence, e, number))
     THEN /\ Finish(p, "validation_error", FALSE)
          /\ UNCHANGED <<evidence, files>>
     ELSE /\ evidence' = [evidence EXCEPT ![e] =
                            EvidenceRow(IF number # <<>> THEN number
                                        ELSE evidence[e].evidence_number, c, dept)]
          /\ files' = [files EXCEPT ![e] = EvidenceSave(files[e])]
          /\ Finish(p, "updated", TRUE)
  /\ UNCHANGED <<year, cases, ncases, nevidence, ledger, dates, now, images, post_data,
                 device_data, access_requests, users>>

\* PATCH /api/evidence/<id>/ with an uploaded file_path, then Evidence.save
ApiEvidenceUpload(p, e, content) ==
  /\ IsIdle(p)
  /\ evidence[e].live
  /\ files' = [files EXCEPT ![e] = EvidenceSave([files[e] EXCEPT !.file_path = content])]
  /\ Finish(p, "updated", TRUE)
  /\ UNCHANGED <<year, cases, ncases, evidence, nevidence, ledger, dates, now, images,
                 post_data, device_data, access_requests, users>>

\* PATCH /api/evidence/<id>/ with hash_md5 (a writable field of the
\* serializer, blank allowed), then Evidence.save
ApiEvidenceDigest(p, e, md5) ==
  /\ IsIdle(p)
  /\ evidence[e].live
  /\ files' = [files EXCEPT ![e] = EvidenceSave([files[e] EXCEPT !.hash_md5 = md5])]
  /\ Finish(p, "updated", TRUE)
  /\ UNCHANGED <<year, cases, ncases, evidence, nevidence, ledger, dates, now, images,
                 post_data, device_data, access_requests, users>>

\* POST /api/evidence-transfers/: a ledger row with the departments given,
\* and with the transfer_date given if there is one
ApiTransferCreate(p, e, from, to, date) ==
  /\ IsIdle(p)
  /\ evidence[e].live
  /\ LedgerRoom
  /\ IF date = NoDate
     THEN CreateTransfer(e, from, to)
     ELSE /\ ledger' = Append(ledger, TransferRow(e, from, to))
          /\ dates' = Append(dates, date)
          /\ UNCHANGED now
  /\ Finish(p, "created", TRUE)
  /\ UNCHANGED <<year, cases, ncases, evidence, nevidence, images, post_data,
                 device_data, files, access_requests, users>>

\* the rows of the ledger, by position (standing for their primary keys)
TransferIds == 1..MaxLedger

\* PATCH /api/evidence-transfers/<id>/ with to_department, and with
\* transfer_date if a date is given: every field but id is writable
ApiTransferUpdate(p, i, to, date) ==
  /\ IsIdle(p)
  /\ i <= Len(ledger)
  /\ ledger' = [ledger EXCEPT ![i].to_department = to]
  /\ dates' = IF date = NoDate THEN dates ELSE [dates EXCEPT ![i] = date]
  /\ Finish(p, "updated", TRUE)
  /\ UNCHANGED <<year, cases, ncases, evidence, nevidence, now, images, post_data,
                 device_data, files, access_requests, users>>

\* DELETE /api/evidence-transfers/<id>/
ApiTransferDelete(p, i) ==
  /\ IsIdle(p)
  /\ i <= Len(ledger)
  /\ ledger' = [k \in 1..(Len(ledger) - 1) |-> IF k < i THEN ledger[k] ELSE ledger[k + 1]]
  /\ dates' = [k \in 1..(Len(dates) - 1) |-> IF k < i THEN dates[k] ELSE dates[k + 1]]
  /\ Finish(p, "deleted", TRUE)
  /\ UNCHANGED <<year, cases, ncases, evidence, nevidence, now, images, post_data,
                 device_data, files, access_requests, users>>

\* the rows of evidence e (related manager evidence.transfers)
TransferIdsOf(e) == { i \in 1..Len(ledger) : ledger[i].evidence = e }

\* the orders in which a set of rows can be returned
Orders(S) ==
  { f \in [1..Cardinality(S) -> S] :
      \A a \in DOMAIN f, b \in DOMAIN f : a # b => f[a] # f[b] }

\* (the rows returned oldest first, ORDER BY transfer_date ASC)
TransfersOldestFirst(e) ==
  { f \in Orders(TransferIdsOf(e)) :
      \A a \in DOMAIN f, b \in DOMAIN f : a < b => dates[f[a]] <= dates[f[b]] }

\* GET /api/evidence/<id>/transfers/ and the detail page:
\* evidence.transfers.all(), with Meta.ordering = ['-transfer_date']; the
\* database may return rows of equal transfer_date in either order, so this
\* is the set of the listings (of row ids) the query can return
Transfers(e) ==
  { f \in Orders(TransferIdsOf(e)) :
      \A a \in DOMAIN f, b \in DOMAIN f : a < b => dates[f[a]] >= dates[f[b]] }

\* the view calls _extract_device_specific_data(request.POST)
Extract ==
  /\ device_data' = ExtractDeviceSpecificData(post_data)
  /\ resp' = IF RaisesAttributeError(post_data) THEN "server_error" ELSE "none"
  /\ UNCHANGED <<year, cases, ncases, evidence, nevidence, ledger, dates, now, images,
                 files, post_data, req, access_requests, users>>

\* the device_data returned is submitted as the next request data
Resubmit ==
  /\ ~device_data.raised
  /\ post_data # AsPostData(device_data.data)
  /\ post_data' = AsPostData(device_data.data)
  /\ resp' = "none"
  /\ UNCHANGED <<year, cases, ncases, evidence, nevidence, ledger, dates, now, images,
                 files, device_data, req, access_requests, users>>

\* ------------------------------------------------------ access requests
Badges == {"b1", "b2"}
Usernames == {"u1", "u2"}
Passwords == {"pw1", "pw2"}
StatusChoices == {"pending", "approved", "rejected"}

\* request.user.username of the staff member reviewing
Reviewer == "admin"

LiveRequests == {a \in AccessIds : access_requests[a].live}

\* the primary key of the next row (a fresh uuid4: any id not in the table)
NewAccessId == CHOOSE a \in AccessIds \ LiveRequests :
                 \A b \in AccessIds \ LiveRequests : a <= b

\* submissions past the checks that have not yet inserted their row
Submitting == {q \in Procs : req[q].pc \in {"access_check", "access_insert"}}

\* the table has room for the rows of all submissions in flight and one more
AccessRoom == Cardinality(LiveRequests) + Cardinality(Submitting) < MaxRequests

\* AccessRequest.objects.filter(badge_number=..., status='pending').first()
PendingOf(badge_number) ==
  {a \in LiveRequests : /\ access_requests[a].badge_number = badge_number
                        /\ access_requests[a].status = "pending"}

\* AccessRequest(...) with the defaults of the model
NewRequest(badge_number, requested_username) ==
  [live |-> TRUE, badge_number |-> badge_number,
   requested_username |-> requested_username, status |-> "pending",
   reviewed_by |-> "", temp_password |-> ""]

\* access_request_create, up to the query on auth_user
AccessRequestCreateBegin(p, badge_number, requested_username) ==
  /\ IsIdle(p)
  /\ AccessRoom
  /\ IF badge_number = "" \/ requested_username = ""
     THEN Finish(p, "required_fields", FALSE)
     ELSE IF requested_username \in users
          THEN Finish(p, "username_taken", FALSE)
          ELSE Goto(p, [Idle EXCEPT !.pc = "access_check",
                          !.access_request =
                             NewRequest(badge_number, requested_username)],
                    FALSE)
  /\ UNCHANGED <<year, cases, ncases, evidence, nevidence, ledger, dates, now,
                 images, files, post_data, device_data, access_requests, users>>

\* access_request_create: the query for a pending request of the badge
AccessRequestCreateCheck(p) ==
  /\ req[p].pc = "access_check"
  /\ IF PendingOf(req[p].access_request.badge_number) # {}
     THEN Finish(p, "already_pending", FALSE)
     ELSE Goto(p, [req[p] EXCEPT !.pc = "access_insert"], FALSE)
  /\ UNCHANGED <<year, cases, ncases, evidence, nevidence, ledger, dates, now,
                 images, files, post_data, device_data, access_requests, users>>

\* access_request_create: AccessRequest.objects.create(...)
AccessRequestCreateInsert(p) ==
  /\ req[p].pc = "access_insert"
  /\ access_requests' =
       [access_requests EXCEPT ![NewAccessId] = req[p].access_request]
  /\ Finish(p, "submitted", TRUE)
  /\ UNCHANGED <<year, cases, ncases, evidence, nevidence, ledger, dates, now,
                 images, files, post_data, device_data, users>>

\* the in-memory request after the reviewer's assignments
Approved(row, temp_password) ==
  [row EXCEPT !.status = "approved", !.reviewed_by = Reviewer,
              !.temp_password = temp_password]

Rejected(row) == [row EXCEPT !.status = "rejected", !.reviewed_by = Reviewer]

\* access_request_review: get_object_or_404 and the branch on action
AccessRequestReviewBegin(p, a, action, temp_password) ==
  /\ IsIdle(p)
  /\ access_requests[a].live
  /\ IF action = "approve"
     THEN Goto(p, [Idle EXCEPT !.pc = "review_user", !.id = a,
                     !.temp_password = temp_password,
                     !.access_request = access_requests[a]], FALSE)
     ELSE Goto(p, [Idle EXCEPT !.pc = "review_save", !.id = a,
                     !.access_request = Rejected(access_requests[a])], FALSE)
  /\ UNCHANGED <<year, cases, ncases, evidence, nevidence, ledger, dates, now,
                 images, files, post_data, device_data, access_requests, users>>

\* access_request_review: User.objects.create_user inside the try block
AccessRequestReviewCreateUser(p) ==
  /\ req[p].pc = "review_user"
  /\ IF req[p].access_request.requested_username \in users
     THEN /\ Finish(p, "user_error", FALSE)
          /\ UNCHANGED users
     ELSE /\ users' = users \cup {req[p].access_request.requested_username}
          /\ Goto(p, [req[p] EXCEPT !.pc = "review_save",
                        !.access_request =
                           Approved(req[p].access_request,
                                    req[p].temp_password)],
                  TRUE)
  /\ UNCHANGED <<year, cases, ncases, evidence, nevidence, ledger, dates, now,
                 images, files, post_data, device_data, access_requests>>

\* access_request_review: access_request.save()
AccessRequestReviewSave(p) ==
  /\ req[p].pc = "review_save"
  /\ access_requests' =
       [access_requests EXCEPT ![req[p].id] = req[p].access_request]
  /\ Finish(p, "reviewed", TRUE)
  /\ UNCHANGED <<year, cases, ncases, evidence, nevidence, ledger, dates, now,
                 images, files, post_data, device_data, users>>

\* AccessRequestAdmin.approve_requests on the selection {a}
ApproveRequests(p, a, temp_password) ==
  /\ IsIdle(p)
  /\ access_requests[a].live
  /\ IF access_requests[a].status # "pending"
     THEN /\ Finish(p, "none_selected", FALSE)
          /\ UNCHANGED <<access_requests, users>>
     ELSE IF access_requests[a].requested_username \in users
          THEN /\ Finish(p, "user_error", FALSE)
               /\ UNCHANGED <<access_requests, users>>
          ELSE /\ users' = users \cup {access_requests[a].requested_username}
               /\ access_requests' =
                    [access_requests EXCEPT
                       ![a] = Approved(access_requests[a], temp_password)]
               /\ Finish(p, "reviewed", TRUE)
  /\ UNCHANGED <<year, cases, ncases, evidence, nevidence, ledger, dates, now,
                 images, files, post_data, device_data>>

\* AccessRequestAdmin.reject_requests on the selection {a}
RejectRequests(p, a) ==
  /\ IsIdle(p)
  /\ access_requests[a].live
  /\ IF access_requests[a].status # "pending"
     THEN /\ Finish(p, "none_selected", FALSE)
          /\ UNCHANGED access_requests
     ELSE /\ access_requests' =
               [access_requests EXCEPT ![a] = Rejected(access_requests[a])]
          /\ Finish(p, "reviewed", TRUE)
  /\ UNCHANGED <<year, cases, ncases, evidence, nevidence, ledger, dates, now,
                 images, files, post_data, device_data, users>>

\* the change form of AccessRequestAdmin: status is an editable field
AccessRequestAdminChange(p, a, status) ==
  /\ IsIdle(p)
  /\ access_requests[a].live
  /\ access_requests' = [access_requests EXCEPT ![a].status = status]
  /\ Finish(p, "updated", TRUE)
  /\ UNCHANGED <<year, cases, ncases, evidence, nevidence, ledger, dates, now,
                 images, files, post_data, device_data, users>>

\* ------------------------------------------------------ the specifications
\* Two workers serve overlapping requests on case and evidence identifiers:
\* create, update and delete through the views (evidence without a case, with
\* an upload and no department)
Next ==
  \E p \in Procs :
    \/ \E n \in IdentCaseNumbers \cup {<<>>} :
         CaseRoom(MaxCases, n) /\ CaseCreateBegin(p, n, "n1", FALSE)
    \/ CaseCreateInsert(p)
    \/ \E c \in CaseIds, n \in IdentCaseNumbers : CaseUpdateBegin(p, c, n, "n1")
    \/ CaseUpdateSave(p)
    \/ \E c \in CaseIds : CaseDelete(p, c)
    \/ \E n \in IdentEvidenceNumbers \cup {<<>>} :
         EvidenceRoom(MaxEvidence, n) /\ EvidenceCreateBegin(p, n, 0, "", TRUE)
    \/ EvidenceCreateInsert(p)
    \/ \E e \in EvidenceIds, n \in IdentEvidenceNumbers :
         EvidenceUpdateBegin(p, e, n, 0, "")
    \/ EvidenceUpdateSave(p)
    \/ \E e \in EvidenceIds : EvidenceDelete(p, e)

Spec == Init /\ [][Next]_vars

\* One worker serves every kind of request on cases, one after the other:
\* views, REST API and admin, over two years
NextCases ==
  \/ NewYear
  \/ \E p \in {"p1"} :
       \/ \E n \in CaseNumberInputs \cup {<<>>} :
            CaseRoom(MaxCases, n) /\ CaseCreateBegin(p, n, "n1", FALSE)
       \/ CaseRoom(MaxCases, <<>>) /\ CaseCreateBegin(p, <<>>, "n1", TRUE)
       \/ CaseCreateInsert(p)
       \/ \E c \in CaseIds, n \in CaseNumberInputs \cup {<<>>} :
            CaseUpdateBegin(p, c, n, "n1")
       \/ CaseUpdateSave(p)
       \/ \E c \in CaseIds : ApiCaseUpdate(p, c, "n1")
       \/ \E c \in CaseIds, n \in CaseNumberInputs \cup {<<>>} :
            AdminCaseChange(p, c, n, "n1")
       \/ \E c \in CaseIds : CaseDelete(p, c)

SpecCases == Init /\ [][NextCases]_vars

\* ... and a request that was begun is served to its end: the view function
\* that has built the object goes on to write it and to return
CasesServed ==
  /\ WF_vars(\E p \in {"p1"} : CaseCreateInsert(p))
  /\ WF_vars(\E p \in {"p1"} : CaseUpdateSave(p))

SpecCasesServed == Init /\ [][NextCases]_vars /\ CasesServed

\* One worker serves requests on cases and evidence, one after the other:
\* evidence is created with an upload (with a department if its number is
\* supplied) and updated by binding it to another case or by renumbering it
NextSeq ==
  \E p \in {"p1"} :
    \/ \E n \in IdentCaseNumbers \cup {<<>>} :
         CaseRoom(SeqCases, n) /\ CaseCreateBegin(p, n, "n1", FALSE)
    \/ CaseCreateInsert(p)
    \/ \E c \in CaseIds, n \in IdentCaseNumbers : CaseUpdateBegin(p, c, n, "n1")
    \/ CaseUpdateSave(p)
    \/ \E c \in CaseIds : CaseDelete(p, c)
    \/ \E n \in EvidenceNumberInputs \cup {<<>>}, c \in CaseIds \cup {0} :
         /\ EvidenceRoom(MaxEvidence, n)
         /\ EvidenceCreateBegin(p, n, c, IF n = <<>> THEN "" ELSE "ar", TRUE)
    \/ EvidenceCreateInsert(p)
    \/ EvidenceCreateLog(p)
    \/ \E e \in EvidenceIds, c \in CaseIds \cup {0} :
         EvidenceUpdateBegin(p, e, <<>>, c, evidence[e].current_department)
    \/ \E e \in EvidenceIds, n \in IdentEvidenceNumbers :
         EvidenceUpdateBegin(p, e, n, evidence[e].case, evidence[e].current_department)
    \/ EvidenceUpdateSave(p)
    \/ \E e \in EvidenceIds : EvidenceDelete(p, e)

SpecSeq == Init /\ [][NextSeq]_vars

\* One worker serves requests on the department of evidence and on the
\* custody ledger, one after the other (evidence without a case, numbers
\* generated)
NextCustody ==
  \E p \in {"p1"} :
    \/ \E d \in Departments :
         EvidenceRoom(CustodyItems, <<>>) /\ EvidenceCreateBegin(p, <<>>, 0, d, FALSE)
    \/ EvidenceCreateInsert(p)
    \/ EvidenceCreateLog(p)
    \/ \E e \in EvidenceIds, d \in Departments : EvidenceUpdateBegin(p, e, <<>>, 0, d)
    \/ EvidenceUpdateSave(p)
    \/ EvidenceUpdateLog(p)
    \/ \E e \in EvidenceIds, d \in Departments : QuickUpdateBegin(p, e, d)
    \/ QuickUpdateLog(p)
    \/ QuickUpdateSave(p)
    \/ \E ids \in BulkSelections, d \in Departments : BulkUpdateBegin(p, ids, d)
    \/ BulkUpdateItem(p)
    \/ \E n \in IdentEvidenceNumbers, d \in Departments :
         EvidenceRoom(CustodyItems, n) /\ ApiEvidenceCreate(p, n, 0, d)
    \/ \E e \in EvidenceIds, d \in Departments : ApiEvidenceUpdate(p, e, <<>>, 0, d)
    \/ \E e \in EvidenceIds, t \in Departments : ApiTransferCreate(p, e, "", t, NoDate)
    \/ \E e \in EvidenceIds : EvidenceDelete(p, e)

SpecCustody == Init /\ [][NextCustody]_vars

\* One worker serves the views that write the department of evidence, one
\* request after the other, and a request may end between its two writes
NextCrash ==
  \E p \in {"p1"} :
    \/ \E d \in Departments :
         EvidenceRoom(CustodyItems, <<>>) /\ EvidenceCreateBegin(p, <<>>, 0, d, FALSE)
    \/ EvidenceCreateInsert(p)
    \/ EvidenceCreateLog(p)
    \/ \E e \in EvidenceIds, d \in Departments : EvidenceUpdateBegin(p, e, <<>>, 0, d)
    \/ EvidenceUpdateSave(p)
    \/ EvidenceUpdateLog(p)
    \/ \E e \in EvidenceIds, d \in Departments : QuickUpdateBegin(p, e, d)
    \/ QuickUpdateLog(p)
    \/ QuickUpdateSave(p)
    \/ \E ids \in BulkSelections, d \in Departments : BulkUpdateBegin(p, ids, d)
    \/ BulkUpdateItem(p)
    \/ Crash(p)
    \/ \E e \in EvidenceIds : EvidenceDelete(p, e)

SpecCrash == Init /\ [][NextCrash]_vars

\* Two workers serve overlapping requests of the views that change the
\* department of evidence (created with no department): each request reads
\* the old department, writes the ledger row and saves the item in steps of
\* its own
NextRace ==
  \E p \in Procs :
    \/ EvidenceRoom(CustodyItems, <<>>) /\ EvidenceCreateBegin(p, <<>>, 0, "", FALSE)
    \/ EvidenceCreateInsert(p)
    \/ \E e \in EvidenceIds, d \in Departments : EvidenceUpdateBegin(p, e, <<>>, 0, d)
    \/ EvidenceUpdateSave(p)
    \/ EvidenceUpdateLog(p)
    \/ \E e \in EvidenceIds, d \in Departments : QuickUpdateBegin(p, e, d)
    \/ QuickUpdateLog(p)
    \/ QuickUpdateSave(p)
    \/ \E e \in EvidenceIds, d \in Departments : BulkUpdateBegin(p, <<e>>, d)
    \/ BulkUpdateItem(p)

SpecRace == Init /\ [][NextRace]_vars

\* the received_date of a form: none, or a date before every reading of the
\* clock
ReceivedDates == {NoDate, Past}

\* One worker serves the views that write the department and the
\* received_date of evidence, one request after the other
NextReceived ==
  \E p \in {"p1"} :
    \/ \E d \in Departments, t \in ReceivedDates :
         /\ EvidenceRoom(CustodyItems, <<>>)
         /\ EvidenceCreateBeginAt(p, <<>>, 0, d, FALSE, t)
    \/ EvidenceCreateInsert(p)
    \/ EvidenceCreateLog(p)
    \/ \E e \in EvidenceIds, d \in Departments, t \in ReceivedDates :
         EvidenceUpdateBeginAt(p, e, <<>>, 0, d, t)
    \/ EvidenceUpdateSave(p)
    \/ EvidenceUpdateLog(p)
    \/ \E e \in EvidenceIds, d \in Departments : QuickUpdateBegin(p, e, d)
    \/ QuickUpdateLog(p)
    \/ QuickUpdateSave(p)
    \/ \E ids \in BulkSelections, d \in Departments : BulkUpdateBegin(p, ids, d)
    \/ BulkUpdateItem(p)
    \/ \E e \in EvidenceIds : EvidenceDelete(p, e)

SpecReceived == Init /\ [][NextReceived]_vars

\* One worker serves requests on the custody ledger, one after the other:
\* evidence created with or without a department and moved by quick updates,
\* and the ledger rows written, changed and deleted through the REST API
NextLedger ==
  \E p \in {"p1"} :
    \/ \E d \in {"", "ar"} :
         EvidenceRoom(MaxEvidence, <<>>) /\ EvidenceCreateBegin(p, <<>>, 0, d, FALSE)
    \/ EvidenceCreateInsert(p)
    \/ EvidenceCreateLog(p)
    \/ \E e \in EvidenceIds, d \in Departments : QuickUpdateBegin(p, e, d)
    \/ QuickUpdateLog(p)
    \/ QuickUpdateSave(p)
    \/ \E e \in EvidenceIds, t \in TransferDates \cup {NoDate} :
         ApiTransferCreate(p, e, "", "ar", t)
    \/ \E i \in TransferIds, t \in TransferDates \cup {NoDate} :
         ApiTransferUpdate(p, i, "sur", t)
    \/ \E i \in TransferIds : ApiTransferDelete(p, i)
    \/ \E e \in EvidenceIds : EvidenceDelete(p, e)

SpecLedger == Init /\ [][NextLedger]_vars

\* One worker serves requests on evidence and its file, one after the other:
\* evidence created and updated through the views, files uploaded and
\* hash_md5 written through the REST API
NextFingerprint ==
  \E p \in {"p1"} :
    \/ EvidenceRoom(MaxEvidence, <<>>) /\ EvidenceCreateBegin(p, <<>>, 0, "", FALSE)
    \/ EvidenceCreateInsert(p)
    \/ \E e \in EvidenceIds : QuickUpdateBegin(p, e, "")
    \/ QuickUpdateSave(p)
    \/ \E e \in EvidenceIds : ApiEvidenceUpdate(p, e, <<>>, 0, "")
    \/ \E e \in EvidenceIds, content \in Contents : ApiEvidenceUpload(p, e, content)
    \/ \E e \in EvidenceIds, content \in Contents \cup {<<>>} :
         ApiEvidenceDigest(p, e, IF content = <<>> THEN <<>> ELSE Md5(content))
    \/ \E e \in EvidenceIds : EvidenceDelete(p, e)

SpecFingerprint == Init /\ [][NextFingerprint]_vars

\* The attribute normalizer applied to submitted forms, and to what it
\* returned
InitNormalize ==
  /\ year = Y25
  /\ cases = [i \in CaseIds |-> NoCase]
  /\ ncases = 0
  /\ evidence = [i \in EvidenceIds |-> NoEvidence]
  /\ nevidence = 0
  /\ ledger = <<>>
  /\ dates = <<>>
  /\ now = 1
  /\ images = {}
  /\ files = [i \in EvidenceIds |-> NoFile]
  /\ post_data \in PostInputs
  /\ device_data = NoData
  /\ access_requests = [a \in AccessIds |-> NoAccess]
  /\ users = {}
  /\ req = [p \in Procs |-> Idle]
  /\ resp = "none"

NextNormalize == Extract \/ Resubmit

SpecNormalize == InitNormalize /\ [][NextNormalize]_vars

\* ------------------------------------------------------------------ claims
LiveCases == { i \in CaseIds : cases[i].live }

LiveEvidence == { i \in EvidenceIds : evidence[i].live }

\* C1: in every reachable state, whatever the interleaving of the create,
\* update and delete requests of two workers, no two Case records have the
\* same case_number and no two Evidence records the same evidence_number.
C1_UniqueNumbers ==
  /\ \A i \in LiveCases, j \in LiveCases :
       i # j => cases[i].case_number # cases[j].case_number
  /\ \A i \in LiveEvidence, j \in LiveEvidence :
       i # j => evidence[i].evidence_number # evidence[j].evidence_number

\* two cases and two evidence items are stored, and the step just taken was a
\* write that the constraint refused in an overlapping request
C1_Witness ==
  /\ Cardinality(LiveCases) = 2
  /\ Cardinality(LiveEvidence) = 2
  /\ resp \in {"duplicate_error", "server_error"}
  /\ \E p \in Procs : req[p].pc # "idle"

\* the stored case numbers that begin with "yr-"
C2_Scope(yr) ==
  { cases[i].case_number : i \in { j \in LiveCases :
      StartsWith(cases[j].case_number, yr \o <<"-">>) } }

\* the segment between the first and the second '-' (to the end if there is
\* one '-' only), and the segment after the last '-'
SecondSegment(n) == Split(n)[2]

LastSegment(n) == Split(n)[Len(Split(n))]

\* the integers that the chosen segment of the numbers of the scope parses to
C2_Suffixes(yr, Seg(_)) ==
  { IntOf(Seg(n)) : n \in { m \in C2_Scope(yr) : IsInt(Seg(m)) } }

C2_Max(S) == IF S = {} THEN 0 ELSE CHOOSE m \in S : \A x \in S : x <= m

\* n < 10000 written with four digits
FourDigits(n) ==
  << Digits[((n \div 1000) % 10) + 1], Digits[((n \div 100) % 10) + 1],
     Digits[((n \div 10) % 10) + 1], Digits[(n % 10) + 1] >>

C2_Number(yr, Seg(_)) == yr \o <<"-">> \o FourDigits(C2_Max(C2_Suffixes(yr, Seg)) + 1)

\* worker p takes the step that generates a case number / that ends its
\* create request for a generated number
C2_Generates(p) ==
  req[p].pc = "idle" /\ req'[p].pc = "case_insert" /\ req'[p].auto

C2_Ends(p) ==
  req[p].pc = "case_insert" /\ req[p].auto /\ req'[p].pc = "idle"

\* the step stores a new case / evidence record
CaseStored(number, name) ==
  \E c \in CaseIds :
    /\ ~cases[c].live
    /\ cases'[c] = CaseRow(number, name)
    /\ \A d \in CaseIds \ {c} : cases'[d] = cases[d]

EvidenceStored(number, c, dept) ==
  \E e \in EvidenceIds :
    /\ ~evidence[e].live
    /\ evidence'[e] = EvidenceRow(number, c, dept)
    /\ \A f \in EvidenceIds \ {e} : evidence'[f] = evidence[f]

\* C2 (as amended): creating a case with no explicit number in year YY, with
\* no other request running, assigns YY-NNNN where NNNN is, in four digits,
\* 1 + the maximum over the integers that the SECOND '-'-delimited segment of
\* the existing case numbers with prefix YY- parses to (numbers whose second
\* segment is no integer are ignored, 0 if there is none); the case is
\* created with that number; from a store where no second segment parses the
\* number is YY-0001, after YY-0001 .. YY-000k it is YY-000(k+1), and with
\* 25-0007 the only number of year 25 it is 25-0008.
C2_SecondSegmentMax ==
  [][\A p \in Procs :
       /\ C2_Generates(p) =>
            /\ req'[p].number = C2_Number(year, SecondSegment)
            /\ \A k \in 0..MaxCases :
                 C2_Suffixes(year, SecondSegment) = 1..k =>
                   req'[p].number = year \o <<"-", "0", "0", "0">> \o Decimal(k + 1)
            /\ (year = Y25 /\ C2_Scope(Y25) = {<<"2", "5", "-", "0", "0", "0", "7">>}) =>
                 req'[p].number = <<"2", "5", "-", "0", "0", "0", "8">>
       /\ C2_Ends(p) =>
            /\ resp' = "created"
            /\ CaseStored(req[p].number, req[p].name)]_vars

\* a number is generated next to a stored number whose second segment is an
\* integer and whose last segment is not: 25-0004 next to 25-0003-X
C2_Witness ==
  /\ req["p1"].pc = "case_insert"
  /\ req["p1"].auto
  /\ req["p1"].number = <<"2", "5", "-", "0", "0", "0", "4">>
  /\ \E c \in LiveCases :
       cases[c].case_number = <<"2", "5", "-", "0", "0", "0", "3", "-", "X">>

\* C2 (as claimed): the generated number is YY-NNNN with NNNN = 1 + the
\* maximum over the integers that the part after the LAST '-' of the existing
\* case numbers with prefix YY- parses to.
C2_LastSegmentMax ==
  [][\A p \in Procs :
       C2_Generates(p) => req'[p].number = C2_Number(year, LastSegment)]_vars

\* n < 1000 written with three digits
ThreeDigits(n) ==
  << Digits[((n \div 100) % 10) + 1], Digits[((n \div 10) % 10) + 1],
     Digits[(n % 10) + 1] >>

\* prefix-001 .. prefix-00k
C3_Run(prefix, k) == { prefix \o <<"-">> \o ThreeDigits(i) : i \in 1..k }

\* the stored evidence numbers that begin with "prefix-"
C3_Prefixed(prefix) ==
  { evidence[i].evidence_number : i \in { j \in LiveEvidence :
      StartsWith(evidence[j].evidence_number, prefix \o <<"-">>) } }

\* the numbers of the evidence bound to case c
C3_BoundTo(c) == { evidence[i].evidence_number : i \in { j \in LiveEvidence :
                     evidence[j].case = c } }

\* the evidence in the scope of prefix (bound to case c, if c is a case) is
\* exactly what k earlier creations without a number left there
C3_AfterRun(c, prefix, k) ==
  /\ C3_Prefixed(prefix) = C3_Run(prefix, k)
  /\ c # 0 => C3_Run(prefix, k) \subseteq C3_BoundTo(c)

C3_PrefixOf(c) == IF c = 0 THEN year \o <<"-">> \o UNASSIGNED ELSE cases[c].case_number

\* C3: with no other request running, an evidence creation without a number
\* that finds in its scope exactly the items of k earlier such creations
\* (k = 0: no evidence in scope) generates C.case_number-00(k+1) for a bound
\* case C, YY-UNASSIGNED-00(k+1) for unbound evidence, and the item is stored
\* with that number: N creations in a row yield -001 .. -00N in order.
C3_SequentialNumbers ==
  [][\A p \in Procs : \A k \in 0..MaxEvidence :
       /\ ( /\ req[p].pc = "idle"
            /\ req'[p].pc = "evidence_insert"
            /\ req'[p].auto
            /\ C3_AfterRun(req'[p].case, C3_PrefixOf(req'[p].case), k) )
          => req'[p].number =
               C3_PrefixOf(req'[p].case) \o <<"-">> \o ThreeDigits(k + 1)
       /\ ( /\ req[p].pc = "evidence_insert"
            /\ req[p].auto
            /\ req'[p].pc # "evidence_insert"
            /\ C3_AfterRun(req[p].case, C3_PrefixOf(req[p].case), k) )
          => /\ req[p].number =
                  C3_PrefixOf(req[p].case) \o <<"-">> \o ThreeDigits(k + 1)
             /\ EvidenceStored(req[p].number, req[p].case, req[p].dept)
             /\ resp' \in {"created", "none"}]_vars

\* the second creation of a run has stored C-002 next to C-001 for a case C
C3_Witness ==
  /\ resp = "created"
  /\ \E c \in LiveCases :
       /\ C3_Prefixed(cases[c].case_number) = C3_Run(cases[c].case_number, 2)
       /\ C3_BoundTo(c) = C3_Run(cases[c].case_number, 2)

\* worker p takes the step that ends the INSERT of its create request
InsertsCase(p) == req[p].pc = "case_insert" /\ req'[p].pc # "case_insert"

InsertsEvidence(p) == req[p].pc = "evidence_insert" /\ req'[p].pc # "evidence_insert"

\* C4: a create request that supplies no number, served with no other request
\* running, never ends with a duplicate-identifier error: whatever the store
\* (evidence re-bound to another case, edited case numbers, explicit numbers,
\* deletions), the generated number is free and the record is created.
C4_GeneratedNumberFree ==
  [][\A p \in Procs :
       /\ (InsertsCase(p) /\ req[p].auto /\ req[p].alone) =>
            /\ resp' # "duplicate_error"
            /\ CaseStored(req[p].number, req[p].name)
       /\ (InsertsEvidence(p) /\ req[p].auto /\ req[p].alone) =>
            /\ resp' # "duplicate_error"
            /\ EvidenceStored(req[p].number, req[p].case, req[p].dept)]_vars

\* C5: a create request without a number that overlapped with another request
\* writing the store (so that the number it generated may have been taken in
\* between) still ends with its record created: the lost race is retried, no
\* error reaches the user.
C5_RaceLoserRetried ==
  [][\A p \in Procs :
       /\ (InsertsCase(p) /\ req[p].auto /\ ~req[p].alone) =>
            /\ resp' = "created"
            /\ \E c \in CaseIds : ~cases[c].live /\ cases'[c].live
       /\ (InsertsEvidence(p) /\ req[p].auto /\ ~req[p].alone) =>
            /\ resp' = "created"
            /\ \E e \in EvidenceIds : ~evidence[e].live /\ evidence'[e].live]_vars

\* C6: creating a case or an evidence item with an operator-supplied number
\* that an existing record of the same kind holds is rejected with the
\* duplicate error, and no step of the request changes the store: no case,
\* evidence, ledger row, image or document is created.
C6_ExplicitDuplicateRejected ==
  [][\A p \in Procs :
       /\ (req[p].pc = "idle" /\ req'[p].pc \in {"case_insert", "evidence_insert"}) =>
            UNCHANGED <<cases, evidence, ledger, images>>
       /\ ( /\ InsertsCase(p)
            /\ ~req[p].auto
            /\ \E c \in LiveCases : cases[c].case_number = req[p].number )
          => /\ resp' = "duplicate_error"
             /\ UNCHANGED <<cases, evidence, ledger, images>>
       /\ ( /\ InsertsEvidence(p)
            /\ ~req[p].auto
            /\ \E e \in LiveEvidence : evidence[e].evidence_number = req[p].number )
          => /\ resp' = "duplicate_error"
             /\ req'[p].pc = "idle"
             /\ UNCHANGED <<cases, evidence, ledger, images>>]_vars

\* a second evidence item with the number 25-0007-001 of the first (which has
\* a department, a ledger row and uploads) was just rejected; there is no
\* case, so the number was not generated
C6_Witness ==
  /\ resp = "duplicate_error"
  /\ ncases = 0
  /\ nevidence = 1
  /\ LiveEvidence = {1}
  /\ evidence[1] = EvidenceRow(<<"2", "5", "-", "0", "0", "0", "7", "-", "0", "0", "1">>,
                               0, "ar")
  /\ ledger = <<TransferRow(1, "", "ar")>>
  /\ images = {1}

\* C7: once a case has a non-empty case_number, a step changes it only if it
\* writes an operator-supplied number that differs from the current one and
\* that no other case holds; no save or update of an existing case generates
\* a number for it, and the REST API does not change it.
C7_CaseNumberImmutable ==
  [][\A c \in CaseIds :
       ( /\ cases[c].live
         /\ cases'[c].live
         /\ cases[c].case_number # <<>>
         /\ cases'[c].case_number # cases[c].case_number )
       => /\ cases'[c].case_number \in CaseNumberInputs
          /\ \A d \in LiveCases \ {c} : cases[d].case_number # cases'[c].case_number]_vars

\* the ledger rows of evidence e, oldest first
RowsOf(e) == SelectSeq(ledger, LAMBDA r : r.evidence = e)

Quiescent == \A p \in Procs : IsIdle(p)

\* C8: for every evidence record, current_department is the to_department of
\* its most recently inserted ledger row, or empty if it has none (stated for
\* the states between requests, where no request is half-way through its
\* writes).
C8_DepartmentIsLastRow ==
  Quiescent =>
    \A e \in LiveEvidence :
      evidence[e].current_department =
        IF RowsOf(e) = <<>> THEN "" ELSE RowsOf(e)[Len(RowsOf(e))].to_department

\* C9: every request that changes the department of an evidence item from d
\* to d' # d appends exactly one ledger row, from d to d': in the same step,
\* or as the last row written by the request before the change, or as the
\* write the request does next; creation with a department d' appends the
\* row from "" to d', creation without a department appends none.
C9_OneRowPerChange ==
  [][/\ \A e \in EvidenceIds :
          LET d == evidence[e].current_department
              dd == evidence'[e].current_department
          IN /\ (evidence[e].live /\ evidence'[e].live /\ d # dd) =>
                  \/ ledger' = Append(ledger, TransferRow(e, d, dd))
                  \/ /\ ledger' = ledger
                     /\ ledger # <<>>
                     /\ ledger[Len(ledger)] = TransferRow(e, d, dd)
                     /\ \E p \in Procs : req[p].pc = "quick_save" /\ req[p].id = e
                  \/ /\ ledger' = ledger
                     /\ \E p \in Procs : /\ req'[p].pc = "evidence_uplog"
                                         /\ req'[p].id = e
                                         /\ req'[p].old = d
                                         /\ req'[p].dept = dd
             /\ (~evidence[e].live /\ evidence'[e].live) =>
                  /\ ledger' = ledger
                  /\ IF dd # ""
                     THEN \E p \in Procs : /\ req'[p].pc = "evidence_log"
                                          /\ req'[p].id = e
                                          /\ req'[p].dept = dd
                     ELSE \A p \in Procs : req'[p].pc # "evidence_log"
     /\ \A p \in Procs :
          /\ (req[p].pc = "evidence_log" /\ req'[p].pc = "idle" /\ req[p].alone) =>
               ledger' = Append(ledger, TransferRow(req[p].id, "", req[p].dept))
          /\ (req[p].pc = "evidence_uplog" /\ req'[p].pc = "idle" /\ req[p].alone) =>
               ledger' = Append(ledger, TransferRow(req[p].id, req[p].old, req[p].dept))]_vars

\* worker p begins a full or a quick update of the department of an item
C10_Begins(p) ==
  req[p].pc = "idle" /\ req'[p].pc \in {"evidence_save", "quick_log", "quick_save"}

\* C10: a full or quick update, served with no other request running, whose
\* target is the current department of the item appends no ledger row and
\* leaves current_department as it is; one whose target differs appends
\* exactly one row in all; so two updates in a row to the same target append
\* exactly one row.
C10_SameTargetNoRow ==
  [][\A p \in Procs :
       /\ C10_Begins(p) =>
            /\ UNCHANGED <<evidence, ledger>>
            /\ req'[p].dept = evidence[req'[p].id].current_department
                 => req'[p].pc \in {"evidence_save", "quick_save"}
       /\ ( /\ req[p].pc \in {"evidence_save", "quick_save"}
            /\ req[p].alone
            /\ req'[p].pc # req[p].pc
            /\ req[p].dept = evidence[req[p].id].current_department )
          => /\ ledger' = ledger
             /\ evidence'[req[p].id].current_department =
                  evidence[req[p].id].current_department
             /\ req'[p].pc = "idle"
             /\ resp' = "updated"
       /\ ( /\ req[p].pc = "evidence_save"
            /\ req[p].alone
            /\ req'[p].pc # req[p].pc
            /\ req[p].dept # evidence[req[p].id].current_department )
          => /\ ledger' = ledger
             /\ req'[p].pc = "evidence_uplog"
       /\ (req[p].pc = "evidence_uplog" /\ req[p].alone /\ req'[p].pc # req[p].pc) =>
            /\ Len(ledger') = Len(ledger) + 1
            /\ req'[p].pc = "idle"
       /\ (req[p].pc = "quick_log" /\ req[p].alone /\ req'[p].pc # req[p].pc) =>
            /\ Len(ledger') = Len(ledger) + 1
            /\ req'[p].pc = "quick_save"
       /\ ( /\ req[p].pc = "quick_save"
            /\ req[p].alone
            /\ req'[p].pc # req[p].pc
            /\ req[p].dept # evidence[req[p].id].current_department )
          => /\ ledger' = ledger
             /\ req'[p].pc = "idle"]_vars

\* item 1 was moved from "sur" to "ar" by an update, and a quick update of
\* item 1 to "ar" again has found nothing to log
C10_Witness ==
  /\ ledger = <<TransferRow(1, "", "sur"), TransferRow(1, "sur", "ar")>>
  /\ evidence[1].live
  /\ evidence[1].current_department = "ar"
  /\ req["p1"].pc = "quick_save"
  /\ req["p1"].id = 1
  /\ req["p1"].dept = "ar"

\* the ledger without the rows of evidence e
C11_Without(rows, e) == SelectSeq(rows, LAMBDA r : r.evidence # e)

\* C11: the custody ledger is append-only: a step leaves the ledger as it is,
\* or appends one row to it, or deletes an evidence record and with it
\* exactly the rows of that record; no step changes a field of a stored row
\* or removes a single row.
C11_AppendOnly ==
  [][\/ ledger' = ledger /\ dates' = dates
     \/ /\ Len(ledger') = Len(ledger) + 1
        /\ SubSeq(ledger', 1, Len(ledger)) = ledger
        /\ SubSeq(dates', 1, Len(dates)) = dates
     \/ \E e \in EvidenceIds :
          /\ evidence[e].live
          /\ ~evidence'[e].live
          /\ ledger' = C11_Without(ledger, e)]_vars

\* the digests and the size of record e
C12_Fingerprint(fs, e) ==
  <<fs[e].hash_md5, fs[e].hash_sha1, fs[e].hash_sha256, fs[e].file_size>>

\* C12: once hash_md5, hash_sha1 or hash_sha256 of an evidence record is not
\* empty, no step that keeps the record changes any of the three digests or
\* file_size: not a later save with a file of other bytes, and not a write
\* through any other exposed path.
C12_FirstWriteWins ==
  [][\A e \in EvidenceIds :
       ( /\ evidence[e].live
         /\ evidence'[e].live
         /\ \/ files[e].hash_md5 # <<>>
            \/ files[e].hash_sha1 # <<>>
            \/ files[e].hash_sha256 # <<>> )
       => C12_Fingerprint(files', e) = C12_Fingerprint(files, e)]_vars

\* a string that is empty or made of blanks only
C13_Blank(s) == \A i \in 1..Len(s) : s[i] = " "

\* s without its leading and trailing blanks
C13_Trim(s) ==
  LET cuts == { ab \in (1..(Len(s) + 1)) \X (0..Len(s)) :
                  /\ \A i \in 1..(ab[1] - 1) : s[i] = " "
                  /\ \A i \in (ab[2] + 1)..Len(s) : s[i] = " "
                  /\ IF C13_Blank(s) THEN ab[2] < ab[1]
                     ELSE ab[1] <= ab[2] /\ s[ab[1]] # " " /\ s[ab[2]] # " " }
      ab == CHOOSE x \in cuts : TRUE
  IN SubSeq(s, ab[1], ab[2])

\* the request data is a submitted form: every value is a string
C13_Submitted ==
  \A k \in DOMAIN post_data : \A i \in DOMAIN post_data[k] : post_data[k][i].type = "str"

\* the step applies the normalizer to a submitted form
C13_Normalizes == post_data' = post_data /\ C13_Submitted

\* C13: the attribute normalizer keeps exactly the submitted keys that belong
\* to the registry device_specific_fields and have a non-blank value,
\* whatever the device_type submitted, and drops every other key: the keys of
\* its result are keys of the registry, or 'sim_cards'.
C13_KeepsRegistryKeys ==
  [][C13_Normalizes =>
       /\ ~device_data'.raised
       /\ DOMAIN device_data'.data \ {"sim_cards"} =
            { k \in DOMAIN post_data \cap device_specific_fields :
                ~C13_Blank(post_data[k][Len(post_data[k])].str) }
       /\ DOMAIN device_data'.data \subseteq device_specific_fields \cup {"sim_cards"}]_vars

\* a form for a mobile device with a computer field, the write-blocker flag
\* and a key outside the registry was normalized: cpu and the flag are kept
C13_Witness ==
  /\ Get(post_data, "device_type") = Str(<<"m">>)
  /\ Get(post_data, "cpu") = Str(<<" ", "x", " ">>)
  /\ "unknown_key" \in DOMAIN post_data
  /\ ~device_data.raised
  /\ DOMAIN (device_data.data) = {"cpu", "write_blocker_used"}

\* the SIM array of field k in the request data
C14_Array(k) ==
  IF SimArrays[k] \in DOMAIN post_data THEN post_data[SimArrays[k]] ELSE <<>>

\* the fields with a non-blank entry at index i
C14_Present(i) ==
  { k \in DOMAIN SimArrays : i <= Len(C14_Array(k)) /\ ~C13_Blank(C14_Array(k)[i].str) }

\* the indices, up to the length of the longest array, with such a field
C14_Kept ==
  { i \in 1..MaxSims :
      /\ \E k \in DOMAIN SimArrays : i <= Len(C14_Array(k))
      /\ C14_Present(i) # {} }

\* C14: the normalizer zips the SIM arrays up to the longest: its sim_cards
\* list has one sub-record per index with a non-blank entry, in increasing
\* order of the index, holding exactly the fields with a non-blank entry at
\* that index, trimmed; the key sim_cards is absent if no index is left;
\* iccid=[A,B], imsi=[X] gives [{iccid:A, imsi:X}, {iccid:B}].
C14_SimZipping ==
  [][C13_Normalizes =>
       LET out == device_data'.data
       IN /\ "sim_cards" \in DOMAIN out <=> C14_Kept # {}
          /\ "sim_cards" \in DOMAIN out =>
               /\ out["sim_cards"].type = "list"
               /\ Len(out["sim_cards"].list) = Cardinality(C14_Kept)
               /\ \A i \in C14_Kept :
                    out["sim_cards"].list[Cardinality({ j \in C14_Kept : j <= i })] =
                      [k \in C14_Present(i) |-> C13_Trim(C14_Array(k)[i].str)]
          /\ ( /\ C14_Array("iccid") = <<Str(<<"A">>), Str(<<" ", "B">>)>>
               /\ C14_Array("imsi") = <<Str(<<"X">>)>> )
             => out["sim_cards"].list =
                  << ("iccid" :> <<"A">>) @@ ("imsi" :> <<"X">>), ("iccid" :> <<"B">>) >>]_vars

\* iccid=[A, B], imsi=[X] was normalized to the two SIM cards
C14_Witness ==
  /\ C14_Array("iccid") = <<Str(<<"A">>), Str(<<" ", "B">>)>>
  /\ C14_Array("imsi") = <<Str(<<"X">>)>>
  /\ "sim_cards" \in DOMAIN device_data.data
  /\ Len(device_data.data["sim_cards"].list) = 2

\* C15: normalization is idempotent: the normalizer applied to the bag it
\* returned (the request data being that bag) returns the same bag, also for
\* a bag with the write_blocker_used flag or a sim_cards list.
C15_Idempotent ==
  [][( /\ post_data' = post_data
       /\ ~device_data.raised
       /\ post_data = AsPostData(device_data.data) )
     => device_data' = device_data]_vars

\* row i carries a reading of the clock as its transfer_date: no date was
\* supplied for it
C16_DefaultDated(i) == dates[i] \in 1..(now - 1)

\* C16: every listing the custody history of an evidence item can return
\* holds all the ledger rows of the item, each once, and no other row, with
\* transfer_date descending; the rows written without a supplied date (all
\* the rows the views write) come in the reverse of their insertion order.
C16_NewestFirst ==
  \A e \in LiveEvidence :
    /\ Transfers(e) # {}
    /\ \A l \in Transfers(e) :
         /\ Len(l) = Cardinality({ i \in 1..Len(ledger) : ledger[i].evidence = e })
         /\ \A i \in 1..Len(ledger) :
              ledger[i].evidence = e <=> \E a \in 1..Len(l) : l[a] = i
         /\ \A a \in 1..Len(l), b \in 1..Len(l) :
              a < b =>
                /\ dates[l[a]] >= dates[l[b]]
                /\ (C16_DefaultDated(l[a]) /\ C16_DefaultDated(l[b])) => l[a] > l[b]

\* item 1 was created in "ar" and moved to "sur" by a quick update: its
\* history lists the second row, then the first
C16_Witness ==
  /\ evidence[1].live
  /\ ledger = <<TransferRow(1, "", "ar"), TransferRow(1, "ar", "sur")>>
  /\ Quiescent
  /\ Transfers(1) = { <<2, 1>> }

\* C17: every ledger row references an existing evidence record; a step that
\* deletes an evidence record removes exactly the ledger rows of that record
\* and leaves every other evidence record as it is; a step that deletes a
\* case removes no evidence record and no ledger row, and leaves the evidence
\* that was bound to the case with no case.
C17_LedgerOwned ==
  /\ [](\A i \in 1..Len(ledger) : evidence[ledger[i].evidence].live)
  /\ [][/\ \A e \in EvidenceIds :
             (evidence[e].live /\ ~evidence'[e].live) =>
               /\ ledger' = SelectSeq(ledger, LAMBDA r : r.evidence # e)
               /\ \A f \in EvidenceIds \ {e} : evidence'[f] = evidence[f]
               /\ cases' = cases
        /\ \A c \in CaseIds :
             (cases[c].live /\ ~cases'[c].live) =>
               /\ ledger' = ledger
               /\ \A e \in EvidenceIds :
                    evidence'[e] = IF evidence[e].live /\ evidence[e].case = c
                                   THEN [evidence[e] EXCEPT !.case = 0]
                                   ELSE evidence[e]]_vars

\* item 1, which had a ledger row, was just deleted with it; the row of item
\* 2 is still there
C17_Witness ==
  /\ resp = "deleted"
  /\ nevidence = 2
  /\ ~evidence[1].live
  /\ evidence[2].live
  /\ now = 3
  /\ ledger = <<TransferRow(2, "", "ar")>>

\* number n is prefix-NNN with three digits NNN
C18_HasFormat(n, prefix) ==
  /\ Len(n) = Len(prefix) + 4
  /\ StartsWith(n, prefix \o <<"-">>)
  /\ IsInt(SubSeq(n, Len(prefix) + 2, Len(n)))

\* item e of the evidence table es has the number format of its binding in
\* the case table cs
C18_Formatted(es, cs, e) ==
  IF es[e].case # 0
  THEN C18_HasFormat(es[e].evidence_number, cs[es[e].case].case_number)
  ELSE \E yr \in {Y25, Y26} :
         C18_HasFormat(es[e].evidence_number, yr \o <<"-">> \o UNASSIGNED)

\* C18: an evidence record whose number has the format of its binding
\* (<case_number of its current case>-NNN, or YY-UNASSIGNED-NNN if unbound), as
\* every generated number has when it is stored, still has it after any step
\* that keeps the record and its number: re-binding or unbinding the evidence,
\* changing the case_number of its case, deleting its case.
C18_FormatKept ==
  [][\A e \in EvidenceIds :
       ( /\ evidence[e].live
         /\ evidence'[e].live
         /\ evidence'[e].evidence_number = evidence[e].evidence_number
         /\ C18_Formatted(evidence, cases, e) )
       => C18_Formatted(evidence', cases', e)]_vars

\* the integers that the last segment of the stored evidence numbers that
\* begin with "prefix-" parses to, whatever case the evidence is bound to
C19_Suffixes(prefix) ==
  { IntOf(LastSegment(n)) : n \in { m \in C3_Prefixed(prefix) : IsInt(LastSegment(m)) } }

\* C19: the evidence number generated for a bound case is
\* <case_number>-(m+1), zero-padded to three digits, where m is the numeric
\* maximum of the last '-'-delimited integer segment over all stored evidence
\* numbers that start with case_number + '-' (whatever case they are bound
\* to), numbers with no integer last segment skipped, 0 if there is none.
C19_NumericMaxOfPrefix ==
  [][\A p \in Procs :
       ( /\ req[p].pc = "idle"
         /\ req'[p].pc = "evidence_insert"
         /\ req'[p].auto
         /\ req'[p].case # 0 )
       => req'[p].number =
            cases[req'[p].case].case_number \o <<"-">>
              \o Format(C2_Max(C19_Suffixes(cases[req'[p].case].case_number)) + 1, 3)]_vars

\* a create request holds the generated case number yr-000k
C20_Issued(yr, k) ==
  \E p \in Procs :
    /\ req[p].pc = "case_insert"
    /\ req[p].auto
    /\ req[p].number = yr \o <<"-">> \o FourDigits(k)

\* C20: generated case numbers increase within their year over any sequence
\* of creations and deletions: once the request that generated yr-000k has
\* ended, no later request generates yr-000j with j <= k (a number freed by
\* deleting its case is never issued again).
C20_NeverReissued ==
  \A yr \in {Y25, Y26} : \A k \in 1..(MaxCases + 1) : \A j \in 1..k :
    [](C20_Issued(yr, k) => [](~C20_Issued(yr, k) => []~C20_Issued(yr, j)))

\* C21: the step that ends an update request carrying an operator-supplied
\* number that a different record holds (also when the number was taken after
\* the request checked it) answers with the duplicate-identifier error, and
\* leaves the record with its previous field values.
C21_UpdateDuplicateRejected ==
  [][\A p \in Procs :
       /\ ( /\ req[p].pc = "case_save"
            /\ req'[p].pc # "case_save"
            /\ ~req[p].auto
            /\ CaseNumberTaken(cases, req[p].id, req[p].number) )
          => (resp' = "duplicate_error" /\ cases' = cases)
       /\ ( /\ req[p].pc = "evidence_save"
            /\ req'[p].pc # "evidence_save"
            /\ ~req[p].auto
            /\ EvidenceNumberTaken(evidence, req[p].id, req[p].number) )
          => (resp' = "duplicate_error" /\ evidence' = evidence)]_vars

\* worker p takes a turn of the bulk loop, on item e
C22_BulkTurn(p, e) ==
  /\ req[p].pc = "bulk"
  /\ e = Head(req[p].rest)
  /\ req'[p].pc # "bulk" \/ req'[p].rest = Tail(req[p].rest)

\* C22 (as claimed): the bulk department action appends a ledger row for every
\* selected existing item, also when the item's department already equals
\* the target.
C22_BulkAlwaysAppends ==
  [][\A p \in Procs : \A e \in EvidenceIds :
       (C22_BulkTurn(p, e) /\ evidence[e].live) =>
         ledger' = Append(ledger, TransferRow(e, evidence[e].current_department,
                                              req[p].dept))]_vars

\* C22: the bulk department action sets the department of every selected
\* existing item to the target; it appends one ledger row (old department to
\* target) for an item whose department differs from the target and no row for
\* an item whose department already equals it, nor for an id that does not
\* exist.
C22_BulkAppendsOnChange ==
  [][\A p \in Procs : \A e \in EvidenceIds :
       C22_BulkTurn(p, e) =>
         IF evidence[e].live
         THEN /\ evidence'[e].current_department = req[p].dept
              /\ ledger' = IF evidence[e].current_department # req[p].dept
                           THEN Append(ledger, TransferRow(e, evidence[e].current_department,
                                                           req[p].dept))
                           ELSE ledger
         ELSE ledger' = ledger /\ evidence' = evidence]_vars

\* the bulk action for department ar has passed item 1, which was held by ar
\* with an empty ledger, and wrote no row
C22_Witness ==
  /\ req["p1"].pc = "bulk"
  /\ req["p1"].dept = "ar"
  /\ req["p1"].rest = <<2>>
  /\ evidence[1].live
  /\ evidence[1].current_department = "ar"
  /\ ledger = <<>>

\* C23: the ledger row and the department of one request are written together
\* or not at all: the step that ends a request on an evidence item, with
\* success or with a failure between the two writes, leaves the item with
\* current_department equal to the to_department of its last ledger row
\* (empty if it has none).
C23_BothOrNeither ==
  [][\A p \in Procs :
       ( /\ req[p].pc \in {"evidence_log", "evidence_save", "evidence_uplog",
                           "quick_log", "quick_save"}
         /\ req'[p].pc = "idle"
         /\ req[p].id # 0
         /\ evidence'[req[p].id].live )
       => LET rows == SelectSeq(ledger', LAMBDA r : r.evidence = req[p].id)
          IN evidence'[req[p].id].current_department =
               IF rows = <<>> THEN "" ELSE rows[Len(rows)].to_department]_vars

\* worker p takes the step that writes the row of evidence e with a
\* department: a creation, or a full update, a quick update or a turn of the
\* bulk action that changes the department
C24_Writes(p, e) ==
  \/ req[p].pc = "evidence_insert" /\ ~evidence[e].live /\ evidence'[e].live
  \/ /\ \/ req[p].pc \in {"evidence_save", "quick_save"} /\ req[p].id = e
        \/ req[p].pc = "bulk" /\ e = Head(req[p].rest)
     /\ evidence[e].live
     /\ evidence'[e].live
     /\ evidence'[e].current_department # evidence[e].current_department

\* the receive timestamp after a write: the supplied one; or the current time
\* if none is supplied and a department is assigned for the first time; or
\* the stored one
C24_Expected(stored, supplied, old_department, new_department) ==
  IF supplied # NoDate THEN supplied
  ELSE IF old_department = "" /\ new_department # "" THEN now
  ELSE stored

\* C24: on every path that writes the department (creation, full update,
\* quick update, bulk update), received_date becomes the supplied timestamp
\* if one is supplied, the current time if none is supplied and the previous
\* department is empty and the new one is not, and stays as stored otherwise.
C24_StampedOnFirstAssignment ==
  [][\A p \in Procs : \A e \in EvidenceIds :
       C24_Writes(p, e) =>
         files'[e].received_date =
           C24_Expected(IF evidence[e].live THEN files[e].received_date ELSE NoDate,
                        req[p].received,
                        IF evidence[e].live THEN evidence[e].current_department ELSE "",
                        req[p].dept)]_vars

\* C25: the three digests of an evidence record are all empty, or they are
\* the MD5, SHA-1 and SHA-256 of one byte content and file_size is the length
\* of that content: the four values are written together, by one save.
C25_WrittenTogether ==
  \A e \in EvidenceIds :
    evidence[e].live =>
      \/ /\ files[e].hash_md5 = <<>>
         /\ files[e].hash_sha1 = <<>>
         /\ files[e].hash_sha256 = <<>>
      \/ \E content \in Contents :
           /\ files[e].hash_md5 = Md5(content)
           /\ files[e].hash_sha1 = Sha1(content)
           /\ files[e].hash_sha256 = Sha256(content)
           /\ files[e].file_size = Len(content)

\* v is a non-empty string with no blank at either end
C26_TrimmedString(v) ==
  /\ v.type = "str"
  /\ v.str # <<>>
  /\ v.str[1] # " "
  /\ v.str[Len(v.str)] # " "

\* C26: every scalar value of a normalized attribute bag is a non-empty
\* string with no leading or trailing whitespace, or, for write_blocker_used
\* only, the value true; a registry key whose submitted value is missing,
\* empty or whitespace-only is not in the bag.
C26_TrimmedOrTrue ==
  [][C13_Normalizes =>
       LET out == device_data'.data
       IN /\ \A k \in DOMAIN out \ {"sim_cards"} :
               \/ C26_TrimmedString(out[k])
               \/ k = "write_blocker_used" /\ out[k] = True
          /\ \A k \in device_specific_fields :
               (k \notin DOMAIN post_data \/ C13_Blank(Get(post_data, k).str))
                 => k \notin DOMAIN out]_vars

\* a form with cpu ' x ' and the write-blocker box ticked was normalized to
\* cpu 'x' and the flag true
C26_Witness ==
  /\ Get(post_data, "device_type") = Str(<<"c">>)
  /\ Get(post_data, "cpu") = Str(<<" ", "x", " ">>)
  /\ Get(post_data, "write_blocker_used") = Str(<<"o", "n">>)
  /\ ~device_data.raised
  /\ DOMAIN (device_data.data) = {"cpu", "write_blocker_used"}
  /\ device_data.data["cpu"] = Str(<<"x">>)
  /\ device_data.data["write_blocker_used"] = True

\* C27: the custody chain of every evidence item is continuous: taking its
\* ledger rows in insertion order, the first row starts from the empty
\* department (the items are created with none) and every later row starts
\* from the department the previous row ends in, whatever the interleaving of
\* the requests.
C27_ChainContinuous ==
  \A e \in LiveEvidence :
    /\ RowsOf(e) # <<>> => RowsOf(e)[1].from_department = ""
    /\ \A i \in 2..Len(RowsOf(e)) :
         RowsOf(e)[i].from_department = RowsOf(e)[i - 1].to_department

\* C28: one change of department leaves one ledger row: no evidence item has
\* two rows in a row with the same from_department and the same
\* to_department, whatever the interleaving of the requests.
C28_OneRowPerChange ==
  \A e \in LiveEvidence :
    \A i \in 2..Len(RowsOf(e)) :
      ~ ( /\ RowsOf(e)[i].from_department = RowsOf(e)[i - 1].from_department
          /\ RowsOf(e)[i].to_department = RowsOf(e)[i - 1].to_department )

\* ------------------------------------------- the access-request workflow
\* one worker: submissions, the staff review view, the admin actions and the
\* admin change form
NextAccess ==
  \E p \in {"p1"} :
    \/ \E b \in Badges \cup {""}, u \in Usernames :
         AccessRequestCreateBegin(p, b, u)
    \/ AccessRequestCreateCheck(p)
    \/ AccessRequestCreateInsert(p)
    \/ \E a \in AccessIds, action \in {"approve", "reject"},
          pw \in Passwords : AccessRequestReviewBegin(p, a, action, pw)
    \/ AccessRequestReviewCreateUser(p)
    \/ AccessRequestReviewSave(p)
    \/ \E a \in AccessIds, pw \in Passwords : ApproveRequests(p, a, pw)
    \/ \E a \in AccessIds : RejectRequests(p, a)
    \/ \E a \in AccessIds, s \in StatusChoices :
         AccessRequestAdminChange(p, a, s)

SpecAccess == Init /\ [][NextAccess]_vars

\* two workers: submissions overlapping each other and the approvals
NextAccessRace ==
  \E p \in Procs :
    \/ \E b \in Badges, u \in Usernames : AccessRequestCreateBegin(p, b, u)
    \/ AccessRequestCreateCheck(p)
    \/ AccessRequestCreateInsert(p)
    \/ \E a \in AccessIds, pw \in Passwords :
         AccessRequestReviewBegin(p, a, "approve", pw)
    \/ AccessRequestReviewCreateUser(p)
    \/ AccessRequestReviewSave(p)

SpecAccessRace == Init /\ [][NextAccessRace]_vars

\* C29: access-request review is a one-way state machine: the status of a
\* request only moves from 'pending' to 'approved' or 'rejected' and never
\* changes after leaving 'pending'; a request becomes 'approved' only with a
\* user account of its requested_username created; and when the account
\* creation fails the request (status, reviewer, temp_password) is unchanged.
C29_Reviewed(a) ==
  /\ access_requests[a].live
  /\ access_requests'[a].status # access_requests[a].status

C29_OneWayReview ==
  [][/\ \A a \in AccessIds :
          /\ C29_Reviewed(a) =>
               /\ access_requests[a].status = "pending"
               /\ access_requests'[a].status \in {"approved", "rejected"}
          /\ (C29_Reviewed(a) /\ access_requests'[a].status = "approved") =>
               access_requests'[a].requested_username \in users'
     /\ resp' = "user_error" =>
          /\ access_requests' = access_requests
          /\ users' = users]_vars

\* C30: at any time at most one access request is 'pending' for a given
\* badge_number, whatever the interleaving of the submissions, and a
\* submission whose requested_username is an existing user creates no request.
C30_OnePending ==
  \A b \in Badges : Cardinality(PendingOf(b)) <= 1

C30_Submitted(a) == ~access_requests[a].live /\ access_requests'[a].live

C30_OnePendingPerBadge ==
  /\ []C30_OnePending
  /\ [][\A a \in AccessIds :
          C30_Submitted(a) =>
            access_requests'[a].requested_username \notin users]_vars

====
